---- MODULE Spec2Model ----
(***************************************************************************)
(* The foreman of the distributed task execution service                   *)
(* (src/foreman/core): connection registry, job manager, task dispatcher,  *)
(* message handlers and job completion, over the persistence gateway       *)
(* (src/foreman/db/crud.py).                                               *)
(*                                                                         *)
(* Concurrency model.  The foreman is one asyncio event loop.  Every       *)
(* connection is served by one coroutine that handles its envelopes one    *)
(* after the other; coroutines of different connections interleave at the  *)
(* awaits.  A step of a handler is: the effect of the persistence call it  *)
(* was suspended in, followed by the synchronous code up to the next       *)
(* persistence call (registry updates and websocket sends included).  The  *)
(* value of pc names the persistence call the handler is suspended in.     *)
(***************************************************************************)
EXTENDS Integers, Sequences, FiniteSets, TLC

\* ---------------------------------------------------------------- bounds
MaxTasks == 2       \* largest total_tasks a client submits
MaxAnswers == 2     \* TASK_RESULT / TASK_ERROR envelopes the foreman receives in all
MaxErrors == 1      \* of which TASK_ERROR
MaxDups == 1        \* of which network duplicates of a TASK_RESULT
MaxStray == 2       \* envelopes sent outside the job and task exchange
MaxCkpts == 3       \* store_checkpoint calls with freely chosen arguments
MaxCkptId == 2      \* largest checkpoint_id such a call carries
MaxVaried == 1      \* deltas with freely chosen content in a run up to compaction
MaxTime == 4        \* the clock stops after this many ticks
Tick == 1800        \* seconds per tick of the clock

DB_SIZE_LIMIT == 1048576     \* StorageHandler.DB_SIZE_LIMIT
CompactionThreshold == 50    \* CheckpointManager.store_checkpoint: len(deltas) >= 50
StaleSeconds == 3600         \* should_resume_from_checkpoint: timedelta(hours=1)

Workers == {"w1", "w2"}
Clients == {"c1"}
Jobs == {"j1"}
Conns == Workers \cup Clients
\* the value the task function returns on each worker, as its JSON text
ResultOf(w) == IF w = "w1" THEN "4" ELSE "true"

Null == "null"

\* ---------------------------------------------------------------- state
VARIABLES
    cmWorkers,      \* ConnectionManager._workers: worker_id -> websocket
    jobWebsockets,  \* ConnectionManager._clients / _job_websockets: job_id -> websocket
    available,      \* ConnectionManager._available_workers
    jobCache,       \* JobManager._job_cache: job ids with cached func_code
    jobs,           \* table jobs: id -> row
    tasks,          \* table tasks: id -> row
    taskOrder,      \* rowid order of table tasks
    workerRows,     \* table workers: id -> row
    failures,       \* table worker_failures: rows per worker_id
    inbox,          \* envelopes received on a connection, not yet handled
    toWorker,       \* envelopes sent on a worker connection, not yet consumed
    toClient,       \* envelopes sent on a client connection
    hs,             \* the handler coroutine of each connection
    started,        \* connections whose peer has sent its first envelope
    nAnswers, nErrors, nDups,   \* envelopes received from the workers so far
    lastResult,     \* the last TASK_RESULT each worker sent
    assignsOut,     \* history: ASSIGN_TASK emitted per task since it was last pending
    doneOrder,      \* history: the tasks whose completion was accepted, in that order
    closed,         \* connections that have been closed, by the peer or by the foreman
    clientType,     \* client_type of handle_connection, per connection
    nStray,         \* envelopes sent outside the job and task exchange so far
    cpRows,         \* table tasks, the checkpoint columns: task id -> columns
    cpFiles,        \* the checkpoint directory: <<task id, file name>> -> file content
    cpAcks,         \* the CHECKPOINT_ACK envelopes sent, as <<task id, checkpoint_id>>
    cpRet,          \* the last store_checkpoint call and what it returned
    cpHist,         \* history: per task the calls stored since its last stored base
    nCkpts,         \* store_checkpoint calls so far
    now,            \* the clock, in units of Tick seconds
    last_worker_idx,    \* RoundRobinScheduler.last_worker_idx
    worker_order,       \* RoundRobinScheduler.worker_order
    lastCall        \* history: the last call made directly on a component, and its result

vars == <<cmWorkers, jobWebsockets, available, jobCache, jobs, tasks, taskOrder,
          workerRows, failures, inbox, toWorker, toClient, hs, started,
          nAnswers, nErrors, nDups, lastResult, assignsOut, doneOrder, closed,
          clientType, nStray, cpRows, cpFiles, cpAcks, cpRet, cpHist, nCkpts, now,
          last_worker_idx, worker_order, lastCall>>

registry == <<cmWorkers, jobWebsockets, available>>
db == <<jobs, tasks, taskOrder, workerRows, failures>>
ckpt == <<cpRows, cpFiles, cpAcks, cpRet, cpHist, nCkpts, now>>
sched == <<last_worker_idx, worker_order, lastCall>>
peers == <<started, nAnswers, nErrors, nDups, lastResult, closed, clientType, nStray, ckpt, sched>>

\* ---------------------------------------------------------------- helpers
Put(f, k, v) == [x \in DOMAIN f \cup {k} |-> IF x = k THEN v ELSE f[x]]

Range(f) == {f[k] : k \in DOMAIN f}

Last(q) == q[Len(q)]

TaskId(job_id, i) == job_id \o "_task_" \o ToString(i)

AllTaskIds == {TaskId(j, i) : j \in Jobs, i \in 0..(MaxTasks - 1)}

Envelope(type, job_id, task_id, val) ==
    [type |-> type, job |-> job_id, task |-> task_id, val |-> val]

ClientMsg(type, job_id, results) ==
    [type |-> type, job |-> job_id, results |-> results]

IdleH == [pc |-> "idle", job |-> Null, task |-> Null, val |-> Null, wid |-> Null,
          worker |-> Null, pend |-> <<>>, avail |-> {}, ret |-> <<>>, cont |-> Null]

\* str(result) of the value a TASK_RESULT carries (job_manager.py:125)
PyStr(v) == IF v = "true" THEN "True" ELSE v

\* json.loads(task.result), the stored text returned verbatim when it does not parse
\* (job_manager.py:239-242); the value is written as its JSON text
JsonLoads(s) == IF s \in {"4", "true"} THEN s ELSE "\"" \o s \o "\""

\* Python truth value of a tuple: true unless it is empty
Truthy(t) == Len(t) # 0

\* ---------------------------------------------------------------- persistence gateway
EmptyMap == [x \in {} |-> Null]

\* crud.create_job: row with the column defaults status=pending, completed_tasks=0
CreateJobRow(total_tasks) ==
    [status |-> "pending", total_tasks |-> total_tasks, completed_tasks |-> 0,
     completed_at |-> FALSE]

\* _create_tasks_for_job: one row per argument, status pending, one commit
CreateTasksForJob(tbl, job_id, n) ==
    [t \in DOMAIN tbl \cup {TaskId(job_id, i) : i \in 0..(n - 1)} |->
        IF t \in DOMAIN tbl THEN tbl[t]
        ELSE [job_id |-> job_id, status |-> "pending", worker_id |-> Null, result |-> Null]]

NewTaskOrder(order, job_id, n) ==
    order \o [k \in 1..n |-> TaskId(job_id, k - 1)]

\* crud.update_job_status: completed_tasks only when given, completed_at when completed
UpdateJobStatus(tbl, job_id, status, completed_tasks) ==
    IF job_id \notin DOMAIN tbl THEN tbl
    ELSE [tbl EXCEPT ![job_id] =
            [@ EXCEPT !.status = status,
                      !.completed_tasks = IF completed_tasks # -1 THEN completed_tasks ELSE @,
                      !.completed_at = IF status = "completed" THEN TRUE ELSE @]]

\* crud.update_task_status: worker_id and result are written only when truthy
UpdateTaskStatus(tbl, task_id, status, worker_id, result) ==
    IF task_id \notin DOMAIN tbl THEN tbl
    ELSE [tbl EXCEPT ![task_id] =
            [@ EXCEPT !.status = status,
                      !.worker_id = IF worker_id # Null THEN worker_id ELSE @,
                      !.result = IF result # Null THEN result ELSE @]]

\* crud.update_worker_status: current_task_id is written only when truthy
UpdateWorkerStatus(tbl, worker_id, status, current_task_id) ==
    IF worker_id \notin DOMAIN tbl THEN tbl
    ELSE [tbl EXCEPT ![worker_id] =
            [@ EXCEPT !.status = status,
                      !.current_task_id =
                          IF current_task_id # Null THEN current_task_id ELSE @]]

\* crud.update_worker_task_stats
UpdateWorkerTaskStats(tbl, worker_id, task_completed) ==
    IF worker_id \notin DOMAIN tbl THEN tbl
    ELSE IF task_completed
         THEN [tbl EXCEPT ![worker_id].total_tasks_completed = @ + 1]
         ELSE [tbl EXCEPT ![worker_id].total_tasks_failed = @ + 1]

\* _create_worker_in_database: insert the row, or mark the existing row online
CreateWorkerInDatabase(tbl, worker_id) ==
    IF worker_id \notin DOMAIN tbl
    THEN Put(tbl, worker_id, [status |-> "online", current_task_id |-> Null,
                              total_tasks_completed |-> 0, total_tasks_failed |-> 0])
    ELSE UpdateWorkerStatus(tbl, worker_id, "online", Null)

\* crud.record_worker_failure
RecordWorkerFailure(tbl, worker_id) ==
    Put(tbl, worker_id, IF worker_id \in DOMAIN tbl THEN tbl[worker_id] + 1 ELSE 1)

\* GetPendingTasks with a wrong status filter
GetAssignedTasks(job_id) ==
    SelectSeq(taskOrder, LAMBDA t : /\ tasks[t].status = "assigned"
                                    /\ (job_id = Null \/ tasks[t].job_id = job_id))

\* crud.get_pending_tasks: the pending rows in rowid order, of one job when given
GetPendingTasks(job_id) ==
    SelectSeq(taskOrder, LAMBDA t : /\ tasks[t].status = "pending"
                                    /\ (job_id = Null \/ tasks[t].job_id = job_id))

\* crud.get_job_tasks
GetJobTasks(job_id) == {t \in DOMAIN tasks : tasks[t].job_id = job_id}

\* _complete_task_if_assigned (foreman/core/utils/utils.py, not among the sources):
\* compare-and-set on (task_id, status = assigned, worker_id); when it applies the
\* result is written, the status becomes completed and jobs.completed_tasks is
\* incremented, all in one transaction
CompleteTaskIfAssigned(task_id, worker_id, result) ==
    LET ok == /\ task_id \in DOMAIN tasks
              /\ tasks[task_id].status = "assigned"
              /\ tasks[task_id].worker_id = worker_id
              /\ tasks[task_id].job_id \in DOMAIN jobs
        j == tasks[task_id].job_id
    IN  IF ok
        THEN [accepted |-> TRUE,
              completed_count |-> jobs[j].completed_tasks + 1,
              total_tasks |-> jobs[j].total_tasks,
              tasks |-> [tasks EXCEPT ![task_id] =
                            [@ EXCEPT !.status = "completed", !.result = result]],
              jobs |-> [jobs EXCEPT ![j].completed_tasks = @ + 1]]
        ELSE [accepted |-> FALSE, completed_count |-> 0, total_tasks |-> 0,
              tasks |-> tasks, jobs |-> jobs]

\* ---------------------------------------------------------------- checkpoints
\* A checkpoint blob is the pickle of a state dict or of a numpy array.  A dict is a
\* function from keys to values: "s" is a value of a few bytes, "H1" and "H2" are
\* payloads that do not compress, a blob holding only "H1" compresses to exactly
\* DB_SIZE_LIMIT bytes.  An array is [arr |-> k], k times one array of noise of
\* DB_SIZE_LIMIT bytes: it does not compress unless k = 0, the array of zeros.
Keys == {"a", "b"}
Vals == {"s", "H1", "H2"}
DictBlobs == {[k \in {x} |-> v] : x \in Keys, v \in Vals}
ArrayBlobs == {[arr |-> k] : k \in {-1, 1}}
Blobs == DictBlobs \cup ArrayBlobs

\* isinstance(state, np.ndarray) / isinstance(state, dict) of the unpickled blob
IsArray(blob) == DOMAIN blob = {"arr"}
IsDict(blob) == DOMAIN blob \subseteq Keys

GzipHeader == 20
ValLen(v) == IF v = "s" THEN 8 ELSE IF v = "H1" THEN DB_SIZE_LIMIT - GzipHeader ELSE DB_SIZE_LIMIT

RECURSIVE SumLen(_, _)
SumLen(blob, ks) ==
    IF ks = {} THEN 0
    ELSE LET k == CHOOSE x \in ks : TRUE
         IN  ValLen(blob[k]) + SumLen(blob, ks \ {k})

\* len(delta_data_bytes)
DataLen(blob) == IF IsArray(blob) THEN DB_SIZE_LIMIT ELSE SumLen(blob, DOMAIN blob)

\* gzip.compress / gzip.decompress, and len(gzip.compress(data))
GzipCompress(data) == [gz |-> data]
GzipDecompress(z) == z.gz
GzipLen(data) ==
    IF IsArray(data) THEN (IF data.arr = 0 THEN GzipHeader + ValLen("s")
                           ELSE GzipHeader + DB_SIZE_LIMIT)
    ELSE GzipHeader + SumLen(data, DOMAIN data)

\* an Optional value: None is the empty sequence, a value is a one-element sequence
None == <<>>
Some(x) == <<x>>

NoTime == -1
NoFiles == [x \in {} |-> None]

\* TaskModel: the column defaults of the checkpoint fields
CpDefaults ==
    [base_ref |-> Null, base_size |-> 0, deltas |-> <<>>, checkpoint_count |-> 0,
     progress |-> 0, last_at |-> NoTime]

\* StorageHandler: "base.gz" or "delta_{checkpoint_id}.gz" in the task's directory
FileName(is_base, checkpoint_id) ==
    IF is_base THEN "base" ELSE "delta_" \o ToString(checkpoint_id)

\* StorageHandler.store_checkpoint: below DB_SIZE_LIMIT only a reference is returned
\* and nothing is written; otherwise the compressed bytes are written to the file
StorageStore(files, task_id, data, is_base, checkpoint_id) ==
    IF GzipLen(data) < DB_SIZE_LIMIT
    THEN [files |-> files, ref |-> "db_" \o ToString(checkpoint_id)]
    ELSE [files |-> Put(files, <<task_id, FileName(is_base, checkpoint_id)>>,
                        GzipCompress(data)),
          ref |-> "fs_" \o task_id \o "/" \o FileName(is_base, checkpoint_id)]

\* StorageHandler.store_checkpoint raises only where it writes a file
StorageWrites(data) == GzipLen(data) >= DB_SIZE_LIMIT

\* StorageHandler.retrieve_checkpoint: read from the file, None when there is none
RetrieveCheckpoint(files, task_id, is_base, checkpoint_id) ==
    IF <<task_id, FileName(is_base, checkpoint_id)>> \in DOMAIN files
    THEN Some(GzipDecompress(files[<<task_id, FileName(is_base, checkpoint_id)>>]))
    ELSE None

\* StorageHandler.delete_checkpoints: the task's directory is removed
DeleteCheckpoints(files, task_id) ==
    [f \in {x \in DOMAIN files : x[1] # task_id} |-> files[f]]

\* CheckpointManager._merge_delta: two dicts give merged = base.copy();
\* merged.update(delta), two arrays give base + delta, anything else the base
MergeDelta(base, delta) ==
    IF IsDict(base) /\ IsDict(delta)
    THEN [k \in DOMAIN base \cup DOMAIN delta |->
             IF k \in DOMAIN delta THEN delta[k] ELSE base[k]]
    ELSE IF IsArray(base) /\ IsArray(delta) THEN [arr |-> base.arr + delta.arr]
    ELSE base

\* the loop of reconstruct_state: the deltas in list order, a delta whose file is
\* missing is skipped
RECURSIVE MergeDeltas(_, _, _, _)
MergeDeltas(files, task_id, state, deltas) ==
    IF deltas = <<>> THEN state
    ELSE LET d == RetrieveCheckpoint(files, task_id, FALSE, Head(deltas).checkpoint_id)
         IN  MergeDeltas(files, task_id,
                         IF d = None THEN state ELSE MergeDelta(state, d[1]),
                         Tail(deltas))

\* CheckpointManager.reconstruct_state
ReconstructState(rows, files, task_id) ==
    IF task_id \notin DOMAIN tasks \/ rows[task_id].base_ref = Null THEN None
    ELSE LET base == RetrieveCheckpoint(files, task_id, TRUE, 0)
         IN  IF base = None THEN None
             ELSE Some(MergeDeltas(files, task_id, base[1], rows[task_id].deltas))

\* CheckpointManager._compact_checkpoints on the state of the running session
CompactCheckpoints(rows, files, task_id) ==
    LET full_state == ReconstructState(rows, files, task_id)
        new_checkpoint_id == rows[task_id].checkpoint_count + 1
    IN  IF full_state = None THEN [rows |-> rows, files |-> files]
        ELSE [rows |-> [rows EXCEPT
                          ![task_id].base_ref = "stored_" \o ToString(new_checkpoint_id),
                          ![task_id].base_size = DataLen(full_state[1]),
                          ![task_id].deltas = <<>>,
                          ![task_id].checkpoint_count = new_checkpoint_id],
              files |-> StorageStore(DeleteCheckpoints(files, task_id), task_id,
                                     full_state[1], TRUE, new_checkpoint_id).files]

\* store_checkpoint up to its commit for a base: the columns and files of the session
StoreBase(rows, files, task_id, data, progress, checkpoint_id) ==
    [rows |-> [rows EXCEPT ![task_id] =
                  [base_ref |-> "stored_" \o ToString(checkpoint_id),
                   base_size |-> DataLen(data), deltas |-> <<>>,
                   checkpoint_count |-> checkpoint_id, progress |-> progress,
                   last_at |-> now]],
     files |-> StorageStore(files, task_id, data, TRUE, checkpoint_id).files]

\* store_checkpoint up to the compaction test for a delta
StoreDelta(rows, files, task_id, data, progress, checkpoint_id) ==
    LET st == StorageStore(files, task_id, data, FALSE, checkpoint_id)
    IN  [rows |-> [rows EXCEPT
                     ![task_id].progress = progress,
                     ![task_id].last_at = now,
                     ![task_id].checkpoint_count = checkpoint_id,
                     ![task_id].deltas =
                         Append(@, [checkpoint_id |-> checkpoint_id,
                                    size |-> DataLen(data),
                                    storage_ref |-> st.ref])],
         files |-> st.files]

\* a store_checkpoint call for a delta reaches _compact_checkpoints
Compacts(rows, task_id) == Len(rows[task_id].deltas) + 1 >= CompactionThreshold

\* the call commits once, in store_checkpoint itself: _compact_checkpoints is not
\* reached, or returns before its own commit
CommitsOnce(rows, files, task_id, is_base, data, progress, checkpoint_id) ==
    \/ is_base
    \/ ~Compacts(rows, task_id)
    \/ LET st == StoreDelta(rows, files, task_id, data, progress, checkpoint_id)
       IN  ReconstructState(st.rows, st.files, task_id) = None

\* CheckpointManager.store_checkpoint: what it returns and the committed columns
\* and files after it.  fail is the exception raised in the call: "write" by the
\* file write of StorageHandler.store_checkpoint, "commit" by session.commit() of
\* a call that commits once; the rollback restores the columns, files are not
\* restored.
StoreCheckpoint(rows, files, task_id, is_base, data, progress, checkpoint_id, fail) ==
    IF task_id \notin DOMAIN tasks THEN [ok |-> FALSE, rows |-> rows, files |-> files]
    ELSE IF fail = "write" /\ StorageWrites(data)
    THEN [ok |-> FALSE, rows |-> rows, files |-> files]
    ELSE LET st == IF is_base
                   THEN StoreBase(rows, files, task_id, data, progress, checkpoint_id)
                   ELSE StoreDelta(rows, files, task_id, data, progress, checkpoint_id)
             compacts == ~is_base /\ Compacts(rows, task_id)
             cp == IF compacts THEN CompactCheckpoints(st.rows, st.files, task_id)
                   ELSE st
         IN  IF fail = "commit"
             THEN [ok |-> FALSE, rows |-> rows, files |-> cp.files]
             ELSE [ok |-> TRUE, rows |-> cp.rows, files |-> cp.files]

\* CheckpointManager.cleanup_checkpoint
CleanupCheckpoint(rows, files, task_id) ==
    IF task_id \notin DOMAIN tasks THEN [ok |-> FALSE, rows |-> rows, files |-> files]
    ELSE [ok |-> TRUE,
          rows |-> [rows EXCEPT ![task_id].base_ref = Null, ![task_id].base_size = 0,
                                ![task_id].deltas = <<>>,
                                ![task_id].checkpoint_count = 0,
                                ![task_id].last_at = NoTime],
          files |-> DeleteCheckpoints(files, task_id)]

\* the tests of should_resume_from_checkpoint without the one on the age
ResumeAnyAge(status, row) ==
    /\ row.base_ref # Null
    /\ status \notin {"completed", "failed"}

\* the tests of should_resume_from_checkpoint on the row of a task that was found:
\* a base, a status that is not terminal, and no last checkpoint older than an hour
ResumeTests(status, row) ==
    /\ row.base_ref # Null
    /\ status \notin {"completed", "failed"}
    /\ ~(row.last_at # NoTime /\ (now - row.last_at) * Tick > StaleSeconds)

\* CheckpointRecoveryManager.should_resume_from_checkpoint
ShouldResumeFromCheckpoint(rows, task_id) ==
    /\ task_id \in DOMAIN tasks
    /\ ResumeTests(tasks[task_id].status, rows[task_id])

\* ---------------------------------------------------------------- connection registry
\* ConnectionManager.find_worker_by_websocket
FindWorkerByWebsocket(ws) ==
    IF \E w \in DOMAIN cmWorkers : cmWorkers[w] = ws
    THEN CHOOSE w \in DOMAIN cmWorkers : cmWorkers[w] = ws
    ELSE Null

\* mark_worker_available without the test for a registered worker
MarkAnyWorkerAvailable(avail, worker_id) == avail \cup {worker_id}

\* ConnectionManager.mark_worker_available: only a registered worker is added
MarkWorkerAvailable(avail, worker_id) ==
    IF worker_id \in DOMAIN cmWorkers THEN avail \cup {worker_id} ELSE avail

\* ConnectionManager.mark_worker_busy
MarkWorkerBusy(avail, worker_id) == avail \ {worker_id}

\* ---------------------------------------------------------------- job manager
\* JobManager.mark_task_completed: the (accepted, job_complete) pair and the tables
MarkTaskCompleted(task_id, job_id, worker_id, result) ==
    LET r == CompleteTaskIfAssigned(task_id, worker_id, PyStr(result))
    IN  [ret |-> IF ~r.accepted THEN <<FALSE, FALSE>>
                 ELSE <<TRUE, r.completed_count >= r.total_tasks>>,
         tasks |-> r.tasks, jobs |-> r.jobs]

\* JobManager.is_job_complete
IsJobComplete(job_id) ==
    /\ GetJobTasks(job_id) # {}
    /\ \A t \in GetJobTasks(job_id) : tasks[t].status = "completed"

\* slot i filled in the order the completions were accepted
SlotTaskByArrival(job_id, i) ==
    IF i + 1 <= Len(doneOrder) THEN doneOrder[i + 1] ELSE TaskId(job_id, i)

\* the task row get_job_results puts in slot i: the one whose id is {job_id}_task_{i}
SlotTask(job_id, i) == TaskId(job_id, i)

\* JobManager.get_job_results, after is_job_complete has answered true
GetJobResults(job_id) ==
    [k \in 1..Cardinality(GetJobTasks(job_id)) |->
        LET t == SlotTask(job_id, k - 1)
        IN  IF t \in GetJobTasks(job_id) /\ tasks[t].status = "completed"
            THEN JsonLoads(tasks[t].result)
            ELSE Null]

\* ---------------------------------------------------------------- scheduler (FIFO)
\* FIFOScheduler.select_task: the first pending task
SelectTask(pending, worker_id) == pending[1]

\* FIFOScheduler.select_worker: next(iter(available_workers)), any member of the set
SelectWorker(avail) == avail

\* ---------------------------------------------------------------- initial state
\* RoundRobinScheduler.__init__, and no direct call made yet
NoCalls ==
    /\ last_worker_idx = -1
    /\ worker_order = <<>>
    /\ lastCall = <<>>

Init ==
    /\ cmWorkers = EmptyMap
    /\ jobWebsockets = EmptyMap
    /\ available = {}
    /\ jobCache = {}
    /\ jobs = EmptyMap
    /\ tasks = EmptyMap
    /\ taskOrder = <<>>
    /\ workerRows = EmptyMap
    /\ failures = EmptyMap
    /\ inbox = [c \in Conns |-> <<>>]
    /\ toWorker = [c \in Workers |-> <<>>]
    /\ toClient = [c \in Clients |-> <<>>]
    /\ hs = [c \in Conns |-> IdleH]
    /\ started = {}
    /\ nAnswers = 0
    /\ nErrors = 0
    /\ nDups = 0
    /\ lastResult = [w \in Workers |-> <<>>]
    /\ assignsOut = [t \in AllTaskIds |-> 0]
    /\ doneOrder = <<>>
    /\ closed = {}
    /\ clientType = [c \in Conns |-> Null]
    /\ nStray = 0
    /\ cpRows = [t \in AllTaskIds |-> CpDefaults]
    /\ cpFiles = NoFiles
    /\ cpAcks = <<>>
    /\ cpRet = <<>>
    /\ cpHist = [t \in AllTaskIds |-> <<>>]
    /\ nCkpts = 0
    /\ now = 0
    /\ NoCalls

\* ---------------------------------------------------------------- the peers
\* A client connects and sends SUBMIT_JOB with total_tasks = len(args_list)
ClientSubmit(c) ==
    /\ c \in Clients \ started
    /\ \E j \in Jobs, n \in 0..MaxTasks :
          inbox' = [inbox EXCEPT ![c] = Append(@, Envelope("submit_job", j, Null, n))]
    /\ started' = started \cup {c}
    /\ UNCHANGED <<registry, jobCache, db, toWorker, toClient, hs, nAnswers, nErrors,
                   nDups, lastResult, assignsOut, doneOrder, closed, clientType, nStray, ckpt, sched>>

\* Worker.connect: the worker sends WORKER_READY with its worker_id
WorkerConnect(w) ==
    /\ w \in Workers \ started
    /\ inbox' = [inbox EXCEPT ![w] = Append(@, Envelope("worker_ready", Null, Null, w))]
    /\ started' = started \cup {w}
    /\ UNCHANGED <<registry, jobCache, db, toWorker, toClient, hs, nAnswers, nErrors,
                   nDups, lastResult, assignsOut, doneOrder, closed, clientType, nStray, ckpt, sched>>

\* Worker._handle_task_assignment: the task runs and its result is sent back
WorkerResult(w) ==
    /\ w \notin closed
    /\ toWorker[w] # <<>>
    /\ nAnswers < MaxAnswers
    /\ LET m == Head(toWorker[w])
           e == Envelope("task_result", m.job, m.task, ResultOf(w))
       IN  /\ inbox' = [inbox EXCEPT ![w] = Append(@, e)]
           /\ lastResult' = [lastResult EXCEPT ![w] = <<e>>]
    /\ toWorker' = [toWorker EXCEPT ![w] = Tail(@)]
    /\ nAnswers' = nAnswers + 1
    /\ UNCHANGED <<registry, jobCache, db, toClient, hs, started, nErrors, nDups,
                   assignsOut, doneOrder, closed, clientType, nStray, ckpt, sched>>

\* Worker._handle_task_assignment: the task raises and TASK_ERROR is sent back
WorkerError(w) ==
    /\ w \notin closed
    /\ toWorker[w] # <<>>
    /\ nAnswers < MaxAnswers
    /\ nErrors < MaxErrors
    /\ LET m == Head(toWorker[w])
       IN  inbox' = [inbox EXCEPT ![w] = Append(@, Envelope("task_error", m.job, m.task, "boom"))]
    /\ toWorker' = [toWorker EXCEPT ![w] = Tail(@)]
    /\ nAnswers' = nAnswers + 1
    /\ nErrors' = nErrors + 1
    /\ UNCHANGED <<registry, jobCache, db, toClient, hs, started, nDups, lastResult,
                   assignsOut, doneOrder, closed, clientType, nStray, ckpt, sched>>

\* The network delivers a worker's last TASK_RESULT a second time
DuplicateResult(w) ==
    /\ lastResult[w] # <<>>
    /\ nAnswers < MaxAnswers
    /\ nDups < MaxDups
    /\ inbox' = [inbox EXCEPT ![w] = Append(@, lastResult[w][1])]
    /\ nAnswers' = nAnswers + 1
    /\ nDups' = nDups + 1
    /\ UNCHANGED <<registry, jobCache, db, toWorker, toClient, hs, started, nErrors,
                   lastResult, assignsOut, doneOrder, closed, clientType, nStray, ckpt, sched>>

\* ---------------------------------------------------------------- task dispatcher
Finish(c) == hs' = [hs EXCEPT ![c] = IdleH]

\* TaskDispatcher._assign_task_to_worker up to the send: the ASSIGN_TASK envelope is
\* written to the worker's websocket, then the task row update is awaited
EmitAssign(c, job_id, task_id, worker_id, cont, rest) ==
    /\ toWorker' = [toWorker EXCEPT ![cmWorkers[worker_id]] =
                        Append(@, Envelope("assign_task", job_id, task_id, Null))]
    /\ assignsOut' = [assignsOut EXCEPT ![task_id] = @ + 1]
    /\ hs' = [hs EXCEPT ![c] = [@ EXCEPT !.pc = "as_task", !.job = job_id,
                                         !.task = task_id, !.worker = worker_id,
                                         !.cont = cont, !.pend = rest, !.avail = {}]]

\* TaskDispatcher.assign_task_to_available_worker: the pending tasks are read, the
\* scheduler selects one, its func_code is looked up and the task is sent
AssignTaskToAvailableWorker(c) ==
    LET pending == GetPendingTasks(Null)
        w == hs[c].wid
        t == SelectTask(pending, w)
    IN  IF pending = <<>> \/ tasks[t].job_id \notin jobCache \/ w \notin DOMAIN cmWorkers
        THEN Finish(c) /\ UNCHANGED <<toWorker, assignsOut>>
        ELSE EmitAssign(c, tasks[t].job_id, t, w, "ata", <<>>)

\* pc = "ata_pending": _get_pending_tasks() of assign_task_to_available_worker returns
AtaPending(c) ==
    /\ hs[c].pc = "ata_pending"
    /\ AssignTaskToAvailableWorker(c)
    /\ UNCHANGED <<registry, jobCache, db, inbox, toClient, peers, doneOrder>>

\* the top of the loop of assign_tasks_for_job over the remaining pending tasks, and
\* the JOB_ACCEPTED reply of _handle_job_submission when the loop ends
LoopTop(c, rest) ==
    IF rest = <<>> \/ available = {}
    THEN /\ toClient' = [toClient EXCEPT ![c] =
                            Append(@, ClientMsg("job_accepted", hs[c].job, <<>>))]
         /\ Finish(c)
    ELSE /\ hs' = [hs EXCEPT ![c] = [@ EXCEPT !.pc = "sj_workers", !.pend = rest,
                                             !.avail = available, !.task = Null,
                                             !.worker = Null, !.cont = Null]]
         /\ UNCHANGED toClient

\* pc = "as_task": _update_task_status(task_id, "assigned", worker_id) is applied, then
\* mark_worker_busy
AsTask(c) ==
    /\ hs[c].pc = "as_task"
    /\ tasks' = UpdateTaskStatus(tasks, hs[c].task, "assigned", hs[c].worker, Null)
    /\ available' = MarkWorkerBusy(available, hs[c].worker)
    /\ hs' = [hs EXCEPT ![c].pc = "as_worker"]
    /\ UNCHANGED <<cmWorkers, jobWebsockets, jobCache, jobs, taskOrder, workerRows,
                   failures, inbox, toWorker, toClient, peers, assignsOut, doneOrder>>

\* pc = "as_worker": _update_worker_status(worker_id, "busy", task_id) is applied and
\* _assign_task_to_worker returns True to its caller
AsWorker(c) ==
    /\ hs[c].pc = "as_worker"
    /\ workerRows' = UpdateWorkerStatus(workerRows, hs[c].worker, "busy", hs[c].task)
    /\ IF hs[c].cont = "loop" THEN LoopTop(c, hs[c].pend)
                              ELSE Finish(c) /\ UNCHANGED toClient
    /\ UNCHANGED <<registry, jobCache, jobs, tasks, taskOrder, failures, inbox, toWorker,
                   peers, assignsOut, doneOrder>>

\* ---------------------------------------------------------------- SUBMIT_JOB
\* MessageType: the type tags of the protocol
MessageTypes ==
    {"submit_job", "get_results", "disconnect", "assign_task", "ping", "resume_task",
     "task_result", "task_error", "worker_ready", "worker_heartbeat", "pong",
     "task_checkpoint", "job_results", "job_error", "job_accepted", "checkpoint_ack"}

\* _determine_client_type that also takes PONG for a worker's first envelope
DetermineClientTypeLax(type) ==
    IF type = "submit_job" THEN "client"
    ELSE IF type \in {"worker_ready", "pong"} THEN "worker"
    ELSE Null

\* WebSocketManager._determine_client_type
DetermineClientType(type) ==
    IF type = "submit_job" THEN "client"
    ELSE IF type = "worker_ready" THEN "worker"
    ELSE Null

\* client_type of handle_connection once an envelope of this type has been parsed:
\* only the first envelope of a connection determines it
RoleAfter(c, type) ==
    IF clientType[c] = Null THEN DetermineClientType(type) ELSE clientType[c]

\* WebSocketManager.handle_connection takes the next envelope of the connection
Receives(c, type) ==
    /\ c \notin closed
    /\ hs[c].pc = "idle"
    /\ inbox[c] # <<>>
    /\ Head(inbox[c]).type = type
    /\ inbox' = [inbox EXCEPT ![c] = Tail(@)]

\* ClientMessageHandler._handle_job_submission: add_client, then JobManager.create_job
\* caches func_code and awaits _create_job_in_database
RecvSubmitJob(c) ==
    /\ Receives(c, "submit_job")
    /\ RoleAfter(c, "submit_job") = "client"
    /\ clientType' = [clientType EXCEPT ![c] = "client"]
    /\ LET e == Head(inbox[c])
       IN  /\ jobWebsockets' = Put(jobWebsockets, e.job, c)
           /\ jobCache' = jobCache \cup {e.job}
           /\ hs' = [hs EXCEPT ![c] = [IdleH EXCEPT !.pc = "sj_job", !.job = e.job,
                                                    !.val = e.val]]
    /\ UNCHANGED <<cmWorkers, available, db, toWorker, toClient, started, nAnswers,
                   nErrors, nDups, lastResult, closed, nStray, ckpt, sched, assignsOut, doneOrder>>

\* pc = "sj_job": the job row is inserted; a job_id that exists raises, and the
\* handler answers JOB_ERROR
SjJob(c) ==
    /\ hs[c].pc = "sj_job"
    /\ IF hs[c].job \in DOMAIN jobs
       THEN /\ toClient' = [toClient EXCEPT ![c] =
                               Append(@, ClientMsg("job_error", hs[c].job, <<>>))]
            /\ Finish(c)
            /\ UNCHANGED jobs
       ELSE /\ jobs' = Put(jobs, hs[c].job, CreateJobRow(hs[c].val))
            /\ hs' = [hs EXCEPT ![c].pc = "sj_tasks"]
            /\ UNCHANGED toClient
    /\ UNCHANGED <<registry, jobCache, tasks, taskOrder, workerRows, failures, inbox,
                   toWorker, peers, assignsOut, doneOrder>>

\* pc = "sj_tasks": _create_tasks_for_job commits the task rows
SjTasks(c) ==
    /\ hs[c].pc = "sj_tasks"
    /\ tasks' = CreateTasksForJob(tasks, hs[c].job, hs[c].val)
    /\ taskOrder' = NewTaskOrder(taskOrder, hs[c].job, hs[c].val)
    /\ hs' = [hs EXCEPT ![c].pc = "sj_running"]
    /\ UNCHANGED <<registry, jobCache, jobs, workerRows, failures, inbox, toWorker,
                   toClient, peers, assignsOut, doneOrder>>

\* pc = "sj_running": _update_job_status(job_id, "running")
SjRunning(c) ==
    /\ hs[c].pc = "sj_running"
    /\ jobs' = UpdateJobStatus(jobs, hs[c].job, "running", -1)
    /\ hs' = [hs EXCEPT ![c].pc = "sj_pending"]
    /\ UNCHANGED <<registry, jobCache, tasks, taskOrder, workerRows, failures, inbox,
                   toWorker, toClient, peers, assignsOut, doneOrder>>

\* pc = "sj_pending": TaskDispatcher.assign_tasks_for_job has read the job's pending
\* tasks and enters its loop
SjPending(c) ==
    /\ hs[c].pc = "sj_pending"
    /\ LoopTop(c, GetPendingTasks(hs[c].job))
    /\ UNCHANGED <<registry, jobCache, db, inbox, toWorker, peers, assignsOut, doneOrder>>

\* pc = "sj_workers": _get_all_workers has returned (its _get_worker_stats is taken
\* to answer; the FIFO scheduler does not read the statistics); the scheduler
\* selects a worker among the available workers read before it, and the task is
\* sent to that worker
SjWorkers(c) ==
    /\ hs[c].pc = "sj_workers"
    /\ \E w \in SelectWorker(hs[c].avail) :
          IF w \in DOMAIN cmWorkers
          THEN /\ EmitAssign(c, hs[c].job, Head(hs[c].pend), w, "loop", Tail(hs[c].pend))
               /\ UNCHANGED toClient
          ELSE /\ LoopTop(c, Tail(hs[c].pend))
               /\ UNCHANGED <<toWorker, assignsOut>>
    /\ UNCHANGED <<registry, jobCache, db, inbox, peers, doneOrder>>

\* ---------------------------------------------------------------- WORKER_READY
\* WorkerMessageHandler._handle_worker_ready: add_worker, then the worker row
RecvWorkerReady(c) ==
    /\ Receives(c, "worker_ready")
    /\ RoleAfter(c, "worker_ready") = "worker"
    /\ clientType' = [clientType EXCEPT ![c] = "worker"]
    /\ LET w == Head(inbox[c]).val
       IN  /\ cmWorkers' = Put(cmWorkers, w, c)
           /\ available' = available \cup {w}
           /\ hs' = [hs EXCEPT ![c] = [IdleH EXCEPT !.pc = "wr_create", !.wid = w]]
    /\ UNCHANGED <<jobWebsockets, jobCache, db, toWorker, toClient, started, nAnswers,
                   nErrors, nDups, lastResult, closed, nStray, ckpt, sched, assignsOut, doneOrder>>

\* pc = "wr_create": _create_worker_in_database
WrCreate(c) ==
    /\ hs[c].pc = "wr_create"
    /\ workerRows' = CreateWorkerInDatabase(workerRows, hs[c].wid)
    /\ hs' = [hs EXCEPT ![c].pc = "wr_online"]
    /\ UNCHANGED <<registry, jobCache, jobs, tasks, taskOrder, failures, inbox, toWorker,
                   toClient, peers, assignsOut, doneOrder>>

\* pc = "wr_online": _update_worker_status(worker_id, "online"), then
\* assign_task_to_available_worker awaits the pending tasks
WrOnline(c) ==
    /\ hs[c].pc = "wr_online"
    /\ workerRows' = UpdateWorkerStatus(workerRows, hs[c].wid, "online", Null)
    /\ hs' = [hs EXCEPT ![c].pc = "ata_pending"]
    /\ UNCHANGED <<registry, jobCache, jobs, tasks, taskOrder, failures, inbox, toWorker,
                   toClient, peers, assignsOut, doneOrder>>

\* ---------------------------------------------------------------- TASK_RESULT
\* WorkerMessageHandler._handle_task_result: the worker id of the websocket is looked
\* up, then mark_task_completed is awaited
RecvTaskResult(c) ==
    /\ Receives(c, "task_result")
    /\ clientType[c] = "worker"
    /\ LET e == Head(inbox[c])
           w == FindWorkerByWebsocket(c)
       IN  hs' = [hs EXCEPT ![c] =
                    IF w = Null THEN IdleH
                    ELSE [IdleH EXCEPT !.pc = "tr_cas", !.job = e.job, !.task = e.task,
                                       !.val = e.val, !.wid = w]]
    /\ UNCHANGED <<registry, jobCache, db, toWorker, toClient, peers, assignsOut, doneOrder>>

\* pc = "tr_cas": JobManager.mark_task_completed returns its pair into job_complete
TrCas(c) ==
    /\ hs[c].pc = "tr_cas"
    /\ LET r == MarkTaskCompleted(hs[c].task, hs[c].job, hs[c].wid, hs[c].val)
       IN  /\ tasks' = r.tasks
           /\ jobs' = r.jobs
           /\ hs' = [hs EXCEPT ![c] = [@ EXCEPT !.pc = "tr_stats", !.ret = r.ret]]
           /\ doneOrder' = IF r.ret[1] THEN Append(doneOrder, hs[c].task) ELSE doneOrder
    /\ UNCHANGED <<registry, jobCache, taskOrder, workerRows, failures, inbox, toWorker,
                   toClient, peers, assignsOut>>

\* pc = "tr_stats": _update_worker_task_stats(worker_id, True), then
\* mark_worker_available
TrStats(c) ==
    /\ hs[c].pc = "tr_stats"
    /\ workerRows' = UpdateWorkerTaskStats(workerRows, hs[c].wid, TRUE)
    /\ available' = MarkWorkerAvailable(available, hs[c].wid)
    /\ hs' = [hs EXCEPT ![c].pc = "tr_online"]
    /\ UNCHANGED <<cmWorkers, jobWebsockets, jobCache, jobs, tasks, taskOrder, failures,
                   inbox, toWorker, toClient, peers, assignsOut, doneOrder>>

\* pc = "tr_online": _update_worker_status(worker_id, "online", None), then
\* "if job_complete:" on the pair mark_task_completed returned
TrOnline(c) ==
    /\ hs[c].pc = "tr_online"
    /\ workerRows' = UpdateWorkerStatus(workerRows, hs[c].wid, "online", Null)
    /\ hs' = [hs EXCEPT ![c].pc = IF Truthy(hs[c].ret) THEN "jc_job" ELSE "ata_pending"]
    /\ UNCHANGED <<registry, jobCache, jobs, tasks, taskOrder, failures, inbox, toWorker,
                   toClient, peers, assignsOut, doneOrder>>

\* ---------------------------------------------------------------- job completion
\* pc = "jc_job": JobCompletionHandler.handle_job_completion has read the job row
\* (and, for its log line only, the job's tasks)
JcJob(c) ==
    /\ hs[c].pc = "jc_job"
    /\ hs' = [hs EXCEPT ![c].pc = IF hs[c].job \in DOMAIN jobs THEN "jc_complete"
                                                              ELSE "ata_pending"]
    /\ UNCHANGED <<registry, jobCache, db, inbox, toWorker, toClient, peers, assignsOut,
                   doneOrder>>

\* pc = "jc_complete": is_job_complete inside get_job_results; None ends the handler
JcComplete(c) ==
    /\ hs[c].pc = "jc_complete"
    /\ hs' = [hs EXCEPT ![c].pc = IF IsJobComplete(hs[c].job) THEN "jc_results"
                                                              ELSE "ata_pending"]
    /\ UNCHANGED <<registry, jobCache, db, inbox, toWorker, toClient, peers, assignsOut,
                   doneOrder>>

\* pc = "jc_results": get_job_results has read the task rows; the results are put in
\* index order and JOB_RESULTS is sent to the client's websocket, when there is one
JcResults(c) ==
    /\ hs[c].pc = "jc_results"
    /\ IF hs[c].job \in DOMAIN jobWebsockets
       THEN /\ toClient' = [toClient EXCEPT ![jobWebsockets[hs[c].job]] =
                    Append(@, ClientMsg("job_results", hs[c].job, GetJobResults(hs[c].job)))]
            /\ hs' = [hs EXCEPT ![c].pc = "jc_final"]
       ELSE /\ hs' = [hs EXCEPT ![c].pc = "ata_pending"]
            /\ UNCHANGED toClient
    /\ UNCHANGED <<registry, jobCache, db, inbox, toWorker, peers, assignsOut, doneOrder>>

\* pc = "jc_final": JobManager.finalize_job: the job row is completed, the cache entry
\* is dropped
JcFinal(c) ==
    /\ hs[c].pc = "jc_final"
    /\ jobs' = UpdateJobStatus(jobs, hs[c].job, "completed", -1)
    /\ jobCache' = jobCache \ {hs[c].job}
    /\ hs' = [hs EXCEPT ![c].pc = "ata_pending"]
    /\ UNCHANGED <<registry, tasks, taskOrder, workerRows, failures, inbox, toWorker,
                   toClient, peers, assignsOut, doneOrder>>

\* ---------------------------------------------------------------- TASK_ERROR
\* WorkerMessageHandler._handle_task_error: the worker id of the websocket is looked
\* up, then mark_task_failed is awaited
RecvTaskError(c) ==
    /\ Receives(c, "task_error")
    /\ clientType[c] = "worker"
    /\ LET e == Head(inbox[c])
           w == FindWorkerByWebsocket(c)
       IN  hs' = [hs EXCEPT ![c] =
                    IF w = Null THEN IdleH
                    ELSE [IdleH EXCEPT !.pc = "te_record", !.job = e.job, !.task = e.task,
                                       !.val = e.val, !.wid = w]]
    /\ UNCHANGED <<registry, jobCache, db, toWorker, toClient, peers, assignsOut, doneOrder>>

\* pc = "te_record": JobManager.mark_task_failed records the failure
TeRecord(c) ==
    /\ hs[c].pc = "te_record"
    /\ failures' = RecordWorkerFailure(failures, hs[c].wid)
    /\ hs' = [hs EXCEPT ![c].pc = "te_task"]
    /\ UNCHANGED <<registry, jobCache, jobs, tasks, taskOrder, workerRows, inbox, toWorker,
                   toClient, peers, assignsOut, doneOrder>>

\* JobManager.mark_task_failed: the task row goes back to pending
MarkTaskFailed(tbl, task_id) == UpdateTaskStatus(tbl, task_id, "pending", Null, Null)

\* pc = "te_task": _update_task_status(task_id, "pending", worker_id=None, error=error)
TeTask(c) ==
    /\ hs[c].pc = "te_task"
    /\ tasks' = MarkTaskFailed(tasks, hs[c].task)
    /\ assignsOut' = [assignsOut EXCEPT ![hs[c].task] = 0]
    /\ hs' = [hs EXCEPT ![c].pc = "te_stats"]
    /\ UNCHANGED <<registry, jobCache, jobs, taskOrder, workerRows, failures, inbox,
                   toWorker, toClient, peers, doneOrder>>

\* pc = "te_stats": _update_worker_task_stats(worker_id, False)
TeStats(c) ==
    /\ hs[c].pc = "te_stats"
    /\ workerRows' = UpdateWorkerTaskStats(workerRows, hs[c].wid, FALSE)
    /\ hs' = [hs EXCEPT ![c].pc = "te_record2"]
    /\ UNCHANGED <<registry, jobCache, jobs, tasks, taskOrder, failures, inbox, toWorker,
                   toClient, peers, assignsOut, doneOrder>>

\* pc = "te_record2": the handler's own _record_worker_failure, then
\* mark_worker_available
TeRecord2(c) ==
    /\ hs[c].pc = "te_record2"
    /\ failures' = RecordWorkerFailure(failures, hs[c].wid)
    /\ available' = MarkWorkerAvailable(available, hs[c].wid)
    /\ hs' = [hs EXCEPT ![c].pc = "te_online"]
    /\ UNCHANGED <<cmWorkers, jobWebsockets, jobCache, jobs, tasks, taskOrder, workerRows,
                   inbox, toWorker, toClient, peers, assignsOut, doneOrder>>

\* pc = "te_online": _update_worker_status(worker_id, "online", None)
TeOnline(c) ==
    /\ hs[c].pc = "te_online"
    /\ workerRows' = UpdateWorkerStatus(workerRows, hs[c].wid, "online", Null)
    /\ hs' = [hs EXCEPT ![c].pc = "ata_pending"]
    /\ UNCHANGED <<registry, jobCache, jobs, tasks, taskOrder, failures, inbox, toWorker,
                   toClient, peers, assignsOut, doneOrder>>

\* ---------------------------------------------------------------- specification
ClientHandler(c) ==
    \/ RecvSubmitJob(c) \/ SjJob(c) \/ SjTasks(c) \/ SjRunning(c) \/ SjPending(c)
    \/ SjWorkers(c)

Assignment(c) == AtaPending(c) \/ AsTask(c) \/ AsWorker(c)

ReadyHandler(c) == RecvWorkerReady(c) \/ WrCreate(c) \/ WrOnline(c)

ResultHandler(c) ==
    \/ RecvTaskResult(c) \/ TrCas(c) \/ TrStats(c) \/ TrOnline(c)
    \/ JcJob(c) \/ JcComplete(c) \/ JcResults(c) \/ JcFinal(c)

ErrorHandler(c) ==
    \/ RecvTaskError(c) \/ TeRecord(c) \/ TeTask(c) \/ TeStats(c) \/ TeRecord2(c)
    \/ TeOnline(c)

HandlerStep(c) ==
    \/ ClientHandler(c) \/ Assignment(c) \/ ReadyHandler(c) \/ ResultHandler(c)
    \/ ErrorHandler(c)

Next ==
    \/ \E c \in Clients : ClientSubmit(c)
    \/ \E w \in Workers : WorkerConnect(w)
    \/ \E w \in Workers : WorkerResult(w)
    \/ \E w \in Workers : WorkerError(w)
    \/ \E w \in Workers : DuplicateResult(w)
    \/ \E c \in Conns : HandlerStep(c)

Spec == Init /\ [][Next]_vars

\* ---------------------------------------------------------------- fair runs
\* The runs of C4: one worker and the client, no TASK_ERROR and no network
\* duplicate.  The event loop runs every handler that can take a step, a started
\* worker answers the ASSIGN_TASK it has received.
LiveWorkers == {"w1"}
LiveConns == LiveWorkers \cup Clients

LiveHandlerStep(c) ==
    \/ ClientHandler(c) \/ Assignment(c) \/ ReadyHandler(c) \/ ResultHandler(c)

LiveNext ==
    \/ \E c \in Clients : ClientSubmit(c)
    \/ \E w \in LiveWorkers : WorkerConnect(w)
    \/ \E w \in LiveWorkers : WorkerResult(w)
    \/ \E c \in LiveConns : LiveHandlerStep(c)

LiveSpec ==
    /\ Init
    /\ [][LiveNext]_vars
    /\ \A c \in LiveConns : WF_vars(LiveHandlerStep(c))
    /\ \A w \in LiveWorkers : WF_vars(WorkerConnect(w)) /\ WF_vars(WorkerResult(w))

\* ---------------------------------------------------------------- properties
\* the JOB_RESULTS envelopes sent for a job so far
JobResultsSent(job_id) ==
    UNION {{<<c, k>> : k \in {n \in 1..Len(toClient[c]) :
                                /\ toClient[c][n].type = "job_results"
                                /\ toClient[c][n].job = job_id}} : c \in Clients}

\* a step that sends JOB_RESULTS to client connection c
EmitsJobResults(c) ==
    /\ Len(toClient'[c]) = Len(toClient[c]) + 1
    /\ Last(toClient'[c]).type = "job_results"

\* a step that sends ASSIGN_TASK on worker connection w
EmitsAssignTask(w) == Len(toWorker'[w]) = Len(toWorker[w]) + 1

\* the tasks recorded as assigned to worker w
AssignedTo(w) ==
    {t \in DOMAIN tasks : tasks[t].status = "assigned" /\ tasks[t].worker_id = w}

\* the worker rows whose current_task_id is task t
RowsWithCurrentTask(t) ==
    {w \in DOMAIN workerRows : workerRows[w].current_task_id = t}

\* C1: whenever JOB_RESULTS is emitted for a job with N tasks, the results array has
\* length N and slot i holds the (parsed) result stored for task {job_id}_task_{i},
\* or null when that task is missing or not completed, whatever the arrival order
C1_ResultsInIndexOrder ==
    [][\A c \in Clients :
          EmitsJobResults(c) =>
              LET m == Last(toClient'[c])
                  N == Cardinality(GetJobTasks(m.job))
              IN  /\ Len(m.results) = N
                  /\ \A i \in 0..(N - 1) :
                        LET t == TaskId(m.job, i)
                        IN  m.results[i + 1] =
                               IF t \in DOMAIN tasks /\ tasks[t].status = "completed"
                               THEN JsonLoads(tasks[t].result)
                               ELSE Null]_vars

\* C1 witness: JOB_RESULTS of a two-task job has been sent, task 1 was completed
\* before task 0, and the two slots hold different results
C1_Witness ==
    \E c \in Clients : \E k \in 1..Len(toClient[c]) :
        /\ toClient[c][k].type = "job_results"
        /\ Len(toClient[c][k].results) = 2
        /\ toClient[c][k].results[1] # toClient[c][k].results[2]
        /\ doneOrder = <<TaskId(toClient[c][k].job, 1), TaskId(toClient[c][k].job, 0)>>

\* C2: a TASK_RESULT for a task already in status completed is rejected with
\* accepted = false and changes neither jobs.completed_tasks nor the stored result;
\* of several completion attempts for one task only the first is accepted
C2_OnlyFirstCompletionAccepted ==
    [][\A c \in Workers :
          (hs[c].pc = "tr_cas" /\ hs'[c].pc = "tr_stats") =>
              LET t == hs[c].task
              IN  /\ (t \in DOMAIN tasks /\ tasks[t].status = "completed") =>
                        /\ hs'[c].ret = <<FALSE, FALSE>>
                        /\ jobs' = jobs
                        /\ tasks' = tasks
                  /\ hs'[c].ret[1] => t \notin Range(doneOrder)]_vars

\* C2, its first half alone: a TASK_RESULT for a task that is in status completed
\* when mark_task_completed runs is rejected and changes nothing
C2_CompletedTaskRejected ==
    [][\A c \in Workers :
          (/\ hs[c].pc = "tr_cas" /\ hs'[c].pc = "tr_stats"
           /\ hs[c].task \in DOMAIN tasks
           /\ tasks[hs[c].task].status = "completed")
              => (hs'[c].ret = <<FALSE, FALSE>> /\ jobs' = jobs /\ tasks' = tasks)]_vars

\* C2 witness: mark_task_completed has just rejected a TASK_RESULT for a task that is
\* in status completed
C2_Witness ==
    \E c \in Workers :
        /\ hs[c].pc = "tr_stats"
        /\ hs[c].ret = <<FALSE, FALSE>>
        /\ hs[c].task \in DOMAIN tasks
        /\ tasks[hs[c].task].status = "completed"

\* C3: for every job, JOB_RESULTS is emitted to the client at most once
C3_JobResultsAtMostOnce ==
    \A j \in Jobs : Cardinality(JobResultsSent(j)) <= 1

\* C4: a job of N >= 1 tasks whose client and worker stay connected, every
\* ASSIGN_TASK being answered with TASK_RESULT, eventually has all its tasks
\* completed and its JOB_RESULTS emitted
C4_JobEventuallyCompletes ==
    (\A w \in LiveWorkers : []<>(toWorker[w] = <<>>)) =>
        \A j \in Jobs :
            (j \in DOMAIN jobs /\ jobs[j].total_tasks >= 1 /\ GetJobTasks(j) # {})
                ~> (GetJobTasks(j) \subseteq Range(doneOrder) /\ JobResultsSent(j) # {})

\* C5: while a task has not returned to pending, at most one ASSIGN_TASK carrying
\* its task_id is emitted
C5_AtMostOneAssign ==
    \A t \in AllTaskIds : assignsOut[t] <= 1

\* C6: a worker in available_workers is registered and no task in status assigned
\* is recorded against it
C6_AvailableNotAssigned ==
    \A w \in available : w \in DOMAIN cmWorkers /\ AssignedTo(w) = {}

\* C7: a task's status changes only along pending->assigned, assigned->completed
\* and assigned->pending; a TASK_RESULT or TASK_ERROR of a worker that is not the
\* task's assignee changes nothing about the task; completed is final
C7_TaskTransitions ==
    [][\A t \in DOMAIN tasks :
          /\ tasks'[t].status # tasks[t].status =>
                <<tasks[t].status, tasks'[t].status>> \in
                    {<<"pending", "assigned">>, <<"assigned", "completed">>,
                     <<"assigned", "pending">>}
          /\ \A c \in Workers :
                (/\ hs[c].pc \in {"tr_cas", "te_task"}
                 /\ hs'[c].pc # hs[c].pc
                 /\ hs[c].task = t
                 /\ ~(tasks[t].status = "assigned" /\ tasks[t].worker_id = hs[c].wid))
                    => tasks'[t] = tasks[t]]_vars

\* C8: for every task in status assigned, exactly one worker row has
\* current_task_id equal to the task's id
C8_OneCurrentTaskRow ==
    \A t \in DOMAIN tasks :
        tasks[t].status = "assigned" => Cardinality(RowsWithCurrentTask(t)) = 1

\* C9: for every job, completed_tasks never decreases and stays within
\* 0..total_tasks
C9_CompletedTasksBounded ==
    [][\A j \in DOMAIN jobs' :
          /\ 0 <= jobs'[j].completed_tasks
          /\ jobs'[j].completed_tasks <= jobs'[j].total_tasks
          /\ j \in DOMAIN jobs => jobs'[j].completed_tasks >= jobs[j].completed_tasks]_vars

\* C10: ASSIGN_TASK is emitted only after the worker has left available_workers and
\* the task has moved from pending to assigned
C10_AssignAfterStateChange ==
    [][\A w \in Workers :
          EmitsAssignTask(w) =>
              LET m == Last(toWorker'[w])
              IN  /\ tasks[m.task].status = "assigned"
                  /\ FindWorkerByWebsocket(w) \notin available]_vars

\* ---------------------------------------------------------------- fair runs with failures
\* The runs of C11: LiveSpec with a task function that may raise.
ErrHandlerStep(c) == LiveHandlerStep(c) \/ ErrorHandler(c)

ErrNext ==
    \/ \E c \in Clients : ClientSubmit(c)
    \/ \E w \in LiveWorkers : WorkerConnect(w)
    \/ \E w \in LiveWorkers : WorkerResult(w)
    \/ \E w \in LiveWorkers : WorkerError(w)
    \/ \E c \in LiveConns : ErrHandlerStep(c)

ErrSpec ==
    /\ Init
    /\ [][ErrNext]_vars
    /\ \A c \in LiveConns : WF_vars(ErrHandlerStep(c))
    /\ \A w \in LiveWorkers : WF_vars(WorkerConnect(w)) /\ WF_vars(WorkerResult(w))

\* the handler of connection c is about to run mark_task_failed for task t, which
\* is recorded as assigned to the worker that reports the error
FailsOwnTask(c, t) ==
    /\ hs[c].pc = "te_record"
    /\ hs[c].task = t
    /\ t \in DOMAIN tasks
    /\ tasks[t].status = "assigned"
    /\ tasks[t].worker_id = hs[c].wid

\* C11: after a TASK_ERROR for the task assigned to the reporting worker, the task
\* is eventually completed by a later TASK_RESULT and the job's JOB_RESULTS is
\* delivered, provided every ASSIGN_TASK is answered
C11_FailedTaskNotLost ==
    (\A w \in LiveWorkers : []<>(toWorker[w] = <<>>)) =>
        \A c \in LiveWorkers : \A t \in AllTaskIds :
            FailsOwnTask(c, t)
                ~> (t \in Range(doneOrder) /\ t \in DOMAIN tasks
                    /\ JobResultsSent(tasks[t].job_id) # {})

\* C12: a task has a worker_id exactly when its status is assigned, completed or
\* failed; in particular a task in status pending has worker_id null
C12_PendingHasNoWorker ==
    \A t \in DOMAIN tasks :
        (tasks[t].worker_id # Null) <=> (tasks[t].status \in {"assigned", "completed", "failed"})

\* the number of worker_failures rows recorded for worker w
FailureRows(w) == IF w \in DOMAIN failures THEN failures[w] ELSE 0

\* C13: for every worker, total_tasks_completed + total_tasks_failed is at least the
\* number of its worker_failures rows
C13_CountersCoverFailures ==
    \A w \in DOMAIN workerRows :
        workerRows[w].total_tasks_completed + workerRows[w].total_tasks_failed
            >= FailureRows(w)

\* C13 witness: a worker whose handler has finished a TASK_ERROR and is idle, with
\* two failure rows and counters that add up to one
C13_Witness ==
    \E w \in DOMAIN workerRows :
        /\ hs[w].pc = "idle"
        /\ inbox[w] = <<>>
        /\ FailureRows(w) = 2
        /\ workerRows[w].total_tasks_completed + workerRows[w].total_tasks_failed = 1

\* ---------------------------------------------------------------- connection close
\* ConnectionManager.find_job_by_websocket
FindJobByWebsocket(ws) ==
    IF \E j \in DOMAIN jobWebsockets : jobWebsockets[j] = ws
    THEN CHOOSE j \in DOMAIN jobWebsockets : jobWebsockets[j] = ws
    ELSE Null

\* ConnectionManager.remove_client
RemoveClient(map, job_id) == [j \in DOMAIN map \ {job_id} |-> map[j]]

\* The client closes its connection between two envelopes: handle_connection leaves
\* its receive loop and WebSocketManager._cleanup_connection removes the client entry
ClientDisconnect(c) ==
    /\ c \in (Clients \cap started) \ closed
    /\ hs[c].pc = "idle"
    /\ inbox[c] = <<>>
    /\ closed' = closed \cup {c}
    /\ jobWebsockets' = IF FindJobByWebsocket(c) # Null
                        THEN RemoveClient(jobWebsockets, FindJobByWebsocket(c))
                        ELSE jobWebsockets
    /\ UNCHANGED <<cmWorkers, available, jobCache, db, inbox, toWorker, toClient, hs,
                   started, nAnswers, nErrors, nDups, lastResult, assignsOut, doneOrder,
                   clientType, nStray, ckpt, sched>>

\* ---------------------------------------------------------------- sequential runs
\* The runs of C14 and C17: the worker connects after the submission has been
\* handled, so no two handlers ever run assignment at the same time; the client may
\* close its connection at any time after that.
SeqWorkerConnect(w) ==
    /\ \A c \in Clients : c \in started /\ hs[c].pc = "idle" /\ inbox[c] = <<>>
    /\ WorkerConnect(w)

SeqHandlerStep(c) ==
    \/ RecvSubmitJob(c) \/ SjJob(c) \/ SjTasks(c) \/ SjRunning(c) \/ SjPending(c)
    \/ Assignment(c) \/ ReadyHandler(c) \/ ResultHandler(c)

SeqNext ==
    \/ \E c \in Clients : ClientSubmit(c)
    \/ \E c \in Clients : ClientDisconnect(c)
    \/ \E w \in LiveWorkers : SeqWorkerConnect(w)
    \/ \E w \in LiveWorkers : WorkerResult(w)
    \/ \E c \in LiveConns : SeqHandlerStep(c)

SeqSpec ==
    /\ Init
    /\ [][SeqNext]_vars
    /\ \A c \in LiveConns : WF_vars(SeqHandlerStep(c))
    /\ \A w \in LiveWorkers : WF_vars(SeqWorkerConnect(w)) /\ WF_vars(WorkerResult(w))

\* C14: a job whose completed_tasks has reached total_tasks becomes completed,
\* whether or not its client is still connected; it does not stay in running
C14_CompletedJobLeavesRunning ==
    \A j \in Jobs :
        (j \in DOMAIN jobs /\ jobs[j].total_tasks >= 1
            /\ jobs[j].completed_tasks = jobs[j].total_tasks)
        ~> (j \in DOMAIN jobs /\ jobs[j].status = "completed")

\* C15: once completed_at of a job row is set, no step changes any field of that row
C15_CompletedJobRowFrozen ==
    [][\A j \in DOMAIN jobs :
          jobs[j].completed_at => (j \in DOMAIN jobs' /\ jobs'[j] = jobs[j])]_vars

\* C16: a job submitted with total_tasks = 0 is accepted, becomes completed, and its
\* client receives JOB_RESULTS with results = []
C16_EmptyJobCompletes ==
    \A j \in Jobs :
        (j \in DOMAIN jobs /\ jobs[j].total_tasks = 0)
        ~> (/\ j \in DOMAIN jobs
            /\ jobs[j].status = "completed"
            /\ \E p \in JobResultsSent(j) : toClient[p[1]][p[2]].results = <<>>)

\* a job with no tasks has been accepted and its submission handler has returned
C16_Witness ==
    \E j \in DOMAIN jobs : \E c \in Clients :
        /\ jobs[j].total_tasks = 0
        /\ hs[c].pc = "idle"
        /\ \E n \in 1..Len(toClient[c]) :
              toClient[c][n].type = "job_accepted" /\ toClient[c][n].job = j

\* the submission of job j has been acknowledged and its handler has returned
JobAccepted(j) ==
    \E c \in Clients :
        /\ hs[c].pc = "idle"
        /\ \E n \in 1..Len(toClient[c]) :
              toClient[c][n].type = "job_accepted" /\ toClient[c][n].job = j

\* C17: a job submitted while no worker is available gets no assignment and all its
\* tasks stay pending; a WORKER_READY arriving afterwards gets one of the pending
\* tasks assigned to that worker
C17_PendingUntilWorkerReady ==
    /\ [](\A j \in DOMAIN jobs :
            (JobAccepted(j) /\ Workers \cap started = {}) =>
                /\ \A w \in Workers : toWorker[w] = <<>>
                /\ Cardinality(GetJobTasks(j)) = jobs[j].total_tasks
                /\ \A t \in DOMAIN tasks :
                      tasks[t].job_id = j =>
                          tasks[t].status = "pending" /\ assignsOut[t] = 0)
    /\ \A w \in LiveWorkers : \A j \in Jobs :
          (/\ JobAccepted(j)
           /\ j \in DOMAIN jobs /\ jobs[j].total_tasks >= 1
           /\ \A t \in DOMAIN tasks : tasks[t].job_id = j => tasks[t].status = "pending"
           /\ w \in started /\ inbox[w] # <<>> /\ Head(inbox[w]).type = "worker_ready")
          ~> (\E t \in DOMAIN tasks :
                /\ tasks[t].job_id = j
                /\ tasks[t].status = "assigned"
                /\ tasks[t].worker_id = w
                /\ assignsOut[t] = 1)

\* a task of an acknowledged job is assigned to the worker that connected afterwards,
\* while the job's other task is still pending
C17_Witness ==
    \E j \in DOMAIN jobs : \E t, u \in DOMAIN tasks :
        /\ JobAccepted(j)
        /\ tasks[t].job_id = j /\ tasks[u].job_id = j
        /\ tasks[t].status = "assigned" /\ tasks[t].worker_id \in LiveWorkers
        /\ tasks[u].status = "pending"

\* C18: in every reachable state a job row comes with all of its task rows
\* {job_id}_task_0 .. {job_id}_task_{N-1}
C18_JobRowHasAllTaskRows ==
    \A j \in DOMAIN jobs :
        \A i \in 0..(jobs[j].total_tasks - 1) : TaskId(j, i) \in DOMAIN tasks

\* create_job has committed the job row but not yet the task rows while the handler
\* of a worker connection is about to read the pending tasks
C18_Witness ==
    \E j \in DOMAIN jobs : \E w \in Workers :
        /\ jobs[j].total_tasks >= 1
        /\ GetJobTasks(j) = {}
        /\ hs[w].pc = "ata_pending"

\* ---------------------------------------------------------------- other envelopes
\* the type tags of the envelopes sent outside the job and task exchange: a tag no
\* role handles, the worker's periodic heartbeat, the answer to a ping, and a tag
\* that is not in MessageType
StrayTags == {"get_results", "worker_heartbeat", "pong", "not_a_tag"}

\* the peer of connection c sends such an envelope, before or after its first one
StraySend(c) ==
    /\ c \notin closed
    /\ nStray < MaxStray
    /\ \E tag \in StrayTags :
          inbox' = [inbox EXCEPT ![c] = Append(@, Envelope(tag, Null, Null, Null))]
    /\ nStray' = nStray + 1
    /\ UNCHANGED <<registry, jobCache, db, toWorker, toClient, hs, started, nAnswers,
                   nErrors, nDups, lastResult, assignsOut, doneOrder, closed, clientType, ckpt, sched>>

\* the types ClientMessageHandler.handle_message and
\* WorkerMessageHandler.handle_message have a branch for
HandledBy(role) ==
    IF role = "client" THEN {"submit_job", "disconnect"}
    ELSE {"worker_ready", "task_result", "task_error", "pong", "task_checkpoint"}

\* ConnectionManager.remove_worker that leaves the registry as it was
KeepWorker(map, worker_id) == map

\* ConnectionManager.remove_worker
RemoveWorker(map, worker_id) == [w \in DOMAIN map \ {worker_id} |-> map[w]]

\* handle_connection leaves its receive loop: WebSocketManager._cleanup_connection up
\* to its await, and the connection is closed
CleanupConnection(c) ==
    /\ closed' = closed \cup {c}
    /\ IF clientType[c] = "worker" /\ FindWorkerByWebsocket(c) # Null
       THEN /\ cmWorkers' = RemoveWorker(cmWorkers, FindWorkerByWebsocket(c))
            /\ available' = available \ {FindWorkerByWebsocket(c)}
            /\ hs' = [hs EXCEPT ![c] = [IdleH EXCEPT !.pc = "cl_offline",
                                                     !.wid = FindWorkerByWebsocket(c)]]
            /\ UNCHANGED jobWebsockets
       ELSE IF clientType[c] = "client" /\ FindJobByWebsocket(c) # Null
       THEN /\ jobWebsockets' = RemoveClient(jobWebsockets, FindJobByWebsocket(c))
            /\ UNCHANGED <<cmWorkers, available, hs>>
       ELSE UNCHANGED <<registry, hs>>

\* Message.from_json raises for a type tag outside MessageType; handle_connection
\* catches the exception and breaks out of its loop
RecvUnparsed(c) ==
    /\ c \notin closed
    /\ hs[c].pc = "idle"
    /\ inbox[c] # <<>>
    /\ Head(inbox[c]).type \notin MessageTypes
    /\ inbox' = [inbox EXCEPT ![c] = Tail(@)]
    /\ CleanupConnection(c)
    /\ UNCHANGED <<jobCache, db, toWorker, toClient, started, nAnswers, nErrors, nDups,
                   lastResult, assignsOut, doneOrder, clientType, nStray, ckpt, sched>>

\* the first envelope determines no role: handle_connection breaks out of its loop
RecvUnknownFirst(c) ==
    /\ c \notin closed
    /\ hs[c].pc = "idle"
    /\ inbox[c] # <<>>
    /\ Head(inbox[c]).type \in MessageTypes
    /\ RoleAfter(c, Head(inbox[c]).type) = Null
    /\ inbox' = [inbox EXCEPT ![c] = Tail(@)]
    /\ CleanupConnection(c)
    /\ UNCHANGED <<jobCache, db, toWorker, toClient, started, nAnswers, nErrors, nDups,
                   lastResult, assignsOut, doneOrder, clientType, nStray, ckpt, sched>>

\* handle_message of the connection's role has no branch for the type: it is logged
RecvIgnored(c) ==
    /\ c \notin closed
    /\ hs[c].pc = "idle"
    /\ inbox[c] # <<>>
    /\ LET type == Head(inbox[c]).type
       IN  /\ type \in MessageTypes
           /\ RoleAfter(c, type) # Null
           /\ type \notin HandledBy(RoleAfter(c, type))
           /\ clientType' = [clientType EXCEPT ![c] = RoleAfter(c, type)]
    /\ inbox' = [inbox EXCEPT ![c] = Tail(@)]
    /\ UNCHANGED <<registry, jobCache, db, toWorker, toClient, hs, started, nAnswers,
                   nErrors, nDups, lastResult, assignsOut, doneOrder, closed, nStray, ckpt, sched>>

\* WorkerMessageHandler._handle_pong up to its await
RecvPong(c) ==
    /\ Receives(c, "pong")
    /\ RoleAfter(c, "pong") = "worker"
    /\ clientType' = [clientType EXCEPT ![c] = "worker"]
    /\ hs' = [hs EXCEPT ![c] =
                IF FindWorkerByWebsocket(c) = Null THEN IdleH
                ELSE [IdleH EXCEPT !.pc = "pong_online", !.wid = FindWorkerByWebsocket(c)]]
    /\ UNCHANGED <<registry, jobCache, db, toWorker, toClient, started, nAnswers, nErrors,
                   nDups, lastResult, closed, nStray, ckpt, sched, assignsOut, doneOrder>>

\* _handle_pong: _update_worker_status(worker_id, "online")
PongOnline(c) ==
    /\ hs[c].pc = "pong_online"
    /\ workerRows' = UpdateWorkerStatus(workerRows, hs[c].wid, "online", Null)
    /\ Finish(c)
    /\ UNCHANGED <<registry, jobCache, jobs, tasks, taskOrder, failures, inbox, toWorker,
                   toClient, peers, assignsOut, doneOrder>>

\* _cleanup_connection: _update_worker_status(worker_id, "offline")
ClOffline(c) ==
    /\ hs[c].pc = "cl_offline"
    /\ workerRows' = UpdateWorkerStatus(workerRows, hs[c].wid, "offline", Null)
    /\ Finish(c)
    /\ UNCHANGED <<registry, jobCache, jobs, tasks, taskOrder, failures, inbox, toWorker,
                   toClient, peers, assignsOut, doneOrder>>

ConnHandlerStep(c) ==
    \/ RecvUnparsed(c) \/ RecvUnknownFirst(c) \/ RecvIgnored(c)
    \/ RecvPong(c) \/ PongOnline(c) \/ ClOffline(c)

\* The runs of C19 and C20: the runs of LiveNext in which the peers also send
\* envelopes outside the job and task exchange
ConnNext ==
    \/ LiveNext
    \/ \E c \in LiveConns : StraySend(c)
    \/ \E c \in LiveConns : ConnHandlerStep(c)

ConnSpec == Init /\ [][ConnNext]_vars

\* handle_connection takes the next envelope of connection c
ReceiveStep(c) ==
    /\ c \notin closed
    /\ hs[c].pc = "idle"
    /\ inbox[c] # <<>>
    /\ inbox'[c] = Tail(inbox[c])

\* C19: the first envelope of a connection fixes its role, SUBMIT_JOB client and
\* WORKER_READY worker; any other first envelope ends the connection and creates no
\* registry entry and no job, task or worker row; a role once fixed never changes
C19_FirstEnvelopeFixesRole ==
    [][\A c \in Conns :
          /\ (clientType[c] = Null /\ ReceiveStep(c)) =>
                LET type == Head(inbox[c]).type
                IN  /\ type = "submit_job" => (clientType'[c] = "client" /\ c \notin closed')
                    /\ type = "worker_ready" => (clientType'[c] = "worker" /\ c \notin closed')
                    /\ type \notin {"submit_job", "worker_ready"} =>
                          /\ c \in closed'
                          /\ clientType'[c] = Null
                          /\ hs'[c].pc = "idle"
                          /\ registry' = registry
                          /\ jobCache' = jobCache
                          /\ db' = db
          /\ clientType[c] # Null => clientType'[c] = clientType[c]]_vars

\* a connection was ended on its first envelope, with no row written, while another
\* connection has become worker-role and registered its worker
C19_Witness ==
    \E c, d \in Conns :
        /\ c \in closed /\ clientType[c] = Null
        /\ jobs = EmptyMap /\ tasks = EmptyMap
        /\ clientType[d] = "worker" /\ FindWorkerByWebsocket(d) # Null

\* C20: an envelope of a type the role of the connection has no handler for, a tag
\* outside the protocol's tag set included, is ignored: the connection stays open
\* and neither the registries nor the tables change
C20_UnknownEnvelopeIgnored ==
    [][\A c \in Conns :
          (/\ clientType[c] # Null
           /\ ReceiveStep(c)
           /\ Head(inbox[c]).type \notin HandledBy(clientType[c])) =>
              /\ c \notin closed'
              /\ hs'[c].pc = "idle"
              /\ registry' = registry
              /\ jobCache' = jobCache
              /\ db' = db]_vars

\* C20 for the tags of the protocol: an envelope with a tag of MessageType that the
\* role of the connection has no handler for is ignored
C20_KnownTagIgnored ==
    [][\A c \in Conns :
          (/\ clientType[c] # Null
           /\ ReceiveStep(c)
           /\ Head(inbox[c]).type \in MessageTypes
           /\ Head(inbox[c]).type \notin HandledBy(clientType[c])) =>
              /\ c \notin closed'
              /\ hs'[c].pc = "idle"
              /\ registry' = registry
              /\ jobCache' = jobCache
              /\ db' = db]_vars

\* a worker-role connection was closed on an envelope and its worker row is offline
C20_Witness ==
    \E c \in closed :
        /\ clientType[c] = "worker"
        /\ \E w \in DOMAIN workerRows : workerRows[w].status = "offline"

\* ---------------------------------------------------------------- worker close
\* The worker closes its connection (or dies) between two envelopes: handle_connection
\* leaves its receive loop and runs WebSocketManager._cleanup_connection
WorkerDisconnect(c) ==
    /\ c \in (Workers \cap started) \ closed
    /\ hs[c].pc = "idle"
    /\ inbox[c] = <<>>
    /\ CleanupConnection(c)
    /\ UNCHANGED <<jobCache, db, inbox, toWorker, toClient, started, nAnswers, nErrors,
                   nDups, lastResult, assignsOut, doneOrder, clientType, nStray, ckpt, sched>>

\* The runs of C21: the runs of LiveNext in which the worker may close its
\* connection at any time, also with a task assigned to it
CloseNext ==
    \/ LiveNext
    \/ \E w \in LiveWorkers : WorkerDisconnect(w)
    \/ \E w \in LiveWorkers : ClOffline(w)

CloseSpec == Init /\ [][CloseNext]_vars

\* C21: when a worker's connection closes the worker leaves the registry and the
\* available set and its row becomes offline, while its counters and the task rows,
\* the row of a task still assigned to it included, stay as they are
C21_WorkerCloseFrame ==
    [][\A c \in Workers :
          /\ (c \notin closed /\ c \in closed' /\ FindWorkerByWebsocket(c) # Null) =>
                LET w == FindWorkerByWebsocket(c)
                IN  /\ w \notin DOMAIN cmWorkers'
                    /\ w \notin available'
                    /\ hs'[c].pc = "cl_offline" /\ hs'[c].wid = w
                    /\ workerRows' = workerRows
                    /\ tasks' = tasks
          /\ (hs[c].pc = "cl_offline" /\ hs'[c].pc # "cl_offline") =>
                LET w == hs[c].wid
                IN  /\ w \in DOMAIN workerRows /\ w \in DOMAIN workerRows'
                    /\ workerRows'[w].status = "offline"
                    /\ workerRows'[w].total_tasks_completed
                          = workerRows[w].total_tasks_completed
                    /\ workerRows'[w].total_tasks_failed = workerRows[w].total_tasks_failed
                    /\ tasks' = tasks]_vars

\* a worker's connection has been closed and cleaned up while a task is still
\* recorded as assigned to that worker, after it completed another task
C21_Witness ==
    \E c \in closed : \E w \in DOMAIN workerRows :
        /\ hs[c].pc = "idle"
        /\ clientType[c] = "worker"
        /\ w \notin DOMAIN cmWorkers
        /\ workerRows[w].status = "offline"
        /\ workerRows[w].total_tasks_completed >= 1
        /\ AssignedTo(w) # {}

\* ---------------------------------------------------------------- checkpoint runs
\* The state in which checkpoints arrive: worker w1 is registered, client c1 has
\* submitted job j1 with one task, the task is assigned to w1 and w1 has been sent
\* its ASSIGN_TASK; every handler has returned.  j1_task_1 is no row of table tasks.
TaskRunning ==
    /\ cmWorkers = [w \in {"w1"} |-> "w1"]
    /\ jobWebsockets = [j \in {"j1"} |-> "c1"]
    /\ available = {}
    /\ jobCache = {"j1"}
    /\ jobs = [j \in {"j1"} |-> [total_tasks |-> 1, status |-> "running",
                                 completed_tasks |-> 0, completed_at |-> FALSE]]
    /\ tasks = [t \in {"j1_task_0"} |-> [job_id |-> "j1", status |-> "assigned",
                                         worker_id |-> "w1", result |-> Null]]
    /\ taskOrder = <<"j1_task_0">>
    /\ workerRows = [w \in {"w1"} |-> [status |-> "busy", current_task_id |-> "j1_task_0",
                                       total_tasks_completed |-> 0,
                                       total_tasks_failed |-> 0]]
    /\ failures = EmptyMap
    /\ inbox = [c \in Conns |-> <<>>]
    /\ toWorker = [c \in Workers |->
                      IF c = "w1" THEN <<Envelope("assign_task", "j1", "j1_task_0", Null)>>
                      ELSE <<>>]
    /\ toClient = [c \in Clients |-> <<ClientMsg("job_accepted", "j1", <<>>)>>]
    /\ hs = [c \in Conns |-> IdleH]
    /\ started = {"w1", "c1"}
    /\ nAnswers = 0
    /\ nErrors = 0
    /\ nDups = 0
    /\ lastResult = [w \in Workers |-> <<>>]
    /\ assignsOut = [t \in AllTaskIds |-> IF t = "j1_task_0" THEN 1 ELSE 0]
    /\ doneOrder = <<>>
    /\ closed = {}
    /\ clientType = [c \in Conns |->
                        IF c = "w1" THEN "worker" ELSE IF c = "c1" THEN "client" ELSE Null]
    /\ nStray = 0

CkptInit ==
    /\ TaskRunning
    /\ cpRows = [t \in AllTaskIds |-> CpDefaults]
    /\ cpFiles = NoFiles
    /\ cpAcks = <<>>
    /\ cpRet = <<>>
    /\ cpHist = [t \in AllTaskIds |-> <<>>]
    /\ nCkpts = 0
    /\ now = 0
    /\ NoCalls

main == <<registry, jobCache, db, inbox, toWorker, toClient, hs, started, nAnswers,
          nErrors, nDups, lastResult, assignsOut, doneOrder, closed, clientType, nStray>>

\* WorkerMessageHandler._handle_task_checkpoint for one TASK_CHECKPOINT envelope of
\* the worker on connection c: store_checkpoint in a session of its own, then
\* CHECKPOINT_ACK when it returned true
HandleTaskCheckpoint(c, task_id, is_base, data, checkpoint_id, fail) ==
    /\ c \notin closed
    /\ clientType[c] = "worker"
    /\ hs[c].pc = "idle"
    /\ inbox[c] = <<>>
    /\ FindWorkerByWebsocket(c) # Null
    /\ LET r == StoreCheckpoint(cpRows, cpFiles, task_id, is_base, data,
                                10 * checkpoint_id, checkpoint_id, fail)
           call == [task |-> task_id, is_base |-> is_base, data |-> data,
                    checkpoint_id |-> checkpoint_id, fail |-> fail, ok |-> r.ok]
       IN  /\ cpRows' = r.rows
           /\ cpFiles' = r.files
           /\ cpRet' = <<call>>
           /\ cpAcks' = IF r.ok THEN Append(cpAcks, <<task_id, checkpoint_id>>) ELSE cpAcks
           /\ cpHist' = IF ~r.ok THEN cpHist
                        ELSE [cpHist EXCEPT ![task_id] =
                                 IF is_base THEN <<call>> ELSE Append(@, call)]
    /\ nCkpts' = nCkpts + 1
    /\ UNCHANGED <<main, now, sched>>

Failures == {"none", "write", "commit"}

\* the worker sends a TASK_CHECKPOINT with freely chosen fields; an exception is
\* raised only where the call gets to: a write error where a file is written
WorkerCheckpoint(w) ==
    /\ nCkpts < MaxCkpts
    /\ \E task_id \in AllTaskIds, is_base \in BOOLEAN, data \in Blobs,
          checkpoint_id \in 1..MaxCkptId, fail \in Failures :
          /\ fail # "none" => task_id \in DOMAIN tasks
          /\ fail = "write" => StorageWrites(data)
          /\ HandleTaskCheckpoint(w, task_id, is_base, data, checkpoint_id, fail)

CkptNext == \E w \in LiveWorkers : WorkerCheckpoint(w)

CkptSpec == CkptInit /\ [][CkptNext]_vars

\* a step in which store_checkpoint was called for task t and returned true
Stored(t) ==
    /\ nCkpts' = nCkpts + 1
    /\ cpRet'[1].task = t
    /\ cpRet'[1].ok

\* C22: store_checkpoint(is_base = true, B) followed by reconstruct_state returns B,
\* whether B compresses to less than DB_SIZE_LIMIT or not
C22_BaseRoundTrip ==
    [][\A t \in AllTaskIds :
          (Stored(t) /\ cpRet'[1].is_base) =>
              ReconstructState(cpRows', cpFiles', t) = Some(cpRet'[1].data)]_vars

\* C22 for the blobs that compress to DB_SIZE_LIMIT bytes or more
C22_LargeBaseRoundTrip ==
    [][\A t \in AllTaskIds :
          (Stored(t) /\ cpRet'[1].is_base /\ GzipLen(cpRet'[1].data) >= DB_SIZE_LIMIT) =>
              ReconstructState(cpRows', cpFiles', t) = Some(cpRet'[1].data)]_vars

\* a base that compresses to less than DB_SIZE_LIMIT was stored and acknowledged, and
\* reconstruct_state has nothing to return
C22_Witness ==
    \E t \in DOMAIN tasks :
        /\ cpHist[t] # <<>>
        /\ Len(cpHist[t]) = 1
        /\ GzipLen(cpHist[t][1].data) < DB_SIZE_LIMIT
        /\ cpRows[t].base_ref # Null
        /\ <<t, cpHist[t][1].checkpoint_id>> \in Range(cpAcks)
        /\ ReconstructState(cpRows, cpFiles, t) = None

\* the right-biased key overlay of two state dicts: the keys of the delta replace
\* those of the base, keys only in the base are kept, new keys are added
Overlay(base, delta) ==
    [k \in DOMAIN base \cup DOMAIN delta |->
        IF k \in DOMAIN delta THEN delta[k] ELSE base[k]]

\* fold(merge, B, [D1..Dn]) over the calls of a history: the base followed by the
\* stored deltas in the order stored
RECURSIVE FoldMerge(_, _)
FoldMerge(state, calls) ==
    IF calls = <<>> THEN state
    ELSE FoldMerge(Overlay(state, Head(calls).data), Tail(calls))

\* the accepted calls for task t are a base followed by fewer deltas than the
\* compaction threshold, all of them state dicts
BaseThenDeltas(t) ==
    /\ cpHist[t] # <<>>
    /\ cpHist[t][1].is_base
    /\ Len(cpHist[t]) - 1 < CompactionThreshold
    /\ \A i \in 1..Len(cpHist[t]) : IsDict(cpHist[t][i].data)

\* C23: after store_checkpoint(base = B) and store_checkpoint(delta = D1) ..
\* store_checkpoint(delta = Dn), n below the compaction threshold, reconstruct_state
\* returns fold(merge, B, [D1..Dn])
C23_DeltasFolded ==
    \A t \in DOMAIN tasks :
        BaseThenDeltas(t) =>
            ReconstructState(cpRows, cpFiles, t) =
                Some(FoldMerge(cpHist[t][1].data, Tail(cpHist[t])))

\* C23 for a run that consists of the base and the deltas alone, each of them
\* compressing to DB_SIZE_LIMIT bytes or more and each delta under an id of its own
C23_LargeDeltasFolded ==
    \A t \in DOMAIN tasks :
        (/\ BaseThenDeltas(t)
         /\ nCkpts = Len(cpHist[t])
         /\ \A i \in 1..Len(cpHist[t]) : GzipLen(cpHist[t][i].data) >= DB_SIZE_LIMIT
         /\ \A i, k \in 2..Len(cpHist[t]) :
                i # k => cpHist[t][i].checkpoint_id # cpHist[t][k].checkpoint_id) =>
            ReconstructState(cpRows, cpFiles, t) =
                Some(FoldMerge(cpHist[t][1].data, Tail(cpHist[t])))

\* a base that is written to a file, then a delta that compresses to less than
\* DB_SIZE_LIMIT on another key: reconstruct_state returns the base alone
C23_Witness ==
    \E t \in DOMAIN tasks :
        /\ BaseThenDeltas(t)
        /\ Len(cpHist[t]) = 2
        /\ GzipLen(cpHist[t][1].data) >= DB_SIZE_LIMIT
        /\ GzipLen(cpHist[t][2].data) < DB_SIZE_LIMIT
        /\ DOMAIN cpHist[t][2].data # DOMAIN cpHist[t][1].data
        /\ Len(cpRows[t].deltas) = 1
        /\ ReconstructState(cpRows, cpFiles, t) = Some(cpHist[t][1].data)

\* ---------------------------------------------------------------- compaction runs
\* CheckpointHandler._checkpoint_loop of the worker that runs j1_task_0: the base
\* first, under id 1, then deltas, the id one more with every checkpoint sent.  The
\* blob of the n-th delta of the list is free for the first MaxVaried deltas and from
\* the delta that reaches the compaction threshold on, and a delta of a few bytes in
\* between.
Filler == [b \in {"b"} |-> "s"]

DeltaChoices(n) == IF n <= MaxVaried \/ n >= CompactionThreshold THEN Blobs ELSE {Filler}

LoopSendsBase(w) ==
    /\ nCkpts = 0
    /\ \E data \in Blobs, fail \in Failures :
          /\ fail = "write" => StorageWrites(data)
          /\ HandleTaskCheckpoint(w, "j1_task_0", TRUE, data, 1, fail)

LoopSendsDelta(w) ==
    /\ nCkpts > 0
    /\ nCkpts <= CompactionThreshold + 1
    /\ LET n == Len(cpRows["j1_task_0"].deltas) + 1
       IN  \E data \in DeltaChoices(n),
              fail \in IF n >= CompactionThreshold THEN {"none", "commit"} ELSE {"none"} :
              /\ fail = "commit" =>
                     CommitsOnce(cpRows, cpFiles, "j1_task_0", FALSE, data,
                                 10 * (nCkpts + 1), nCkpts + 1)
              /\ HandleTaskCheckpoint(w, "j1_task_0", FALSE, data, nCkpts + 1, fail)

CompactNext ==
    \/ \E w \in LiveWorkers : LoopSendsBase(w)
    \/ \E w \in LiveWorkers : LoopSendsDelta(w)

CompactSpec == CkptInit /\ [][CompactNext]_vars

\* the session of the store_checkpoint call of this step for a delta of task t, at
\* the compaction test: the columns and files before _compact_checkpoints
AtCompactionTest(t) ==
    StoreDelta(cpRows, cpFiles, t, cpRet'[1].data, 10 * cpRet'[1].checkpoint_id,
               cpRet'[1].checkpoint_id)

\* C24: the stored delta that brings the delta count of a task to the compaction
\* threshold leaves the delta list empty and checkpoint_count greater than before
\* the compaction; a delta stored below the threshold is appended to the list
C24_CompactionAtThreshold ==
    [][\A t \in AllTaskIds :
          (Stored(t) /\ ~cpRet'[1].is_base) =>
              IF Len(cpRows[t].deltas) + 1 = CompactionThreshold
              THEN /\ cpRows'[t].deltas = <<>>
                   /\ cpRows'[t].checkpoint_count > cpRet'[1].checkpoint_id
              ELSE Len(cpRows[t].deltas) + 1 < CompactionThreshold =>
                       /\ Len(cpRows'[t].deltas) = Len(cpRows[t].deltas) + 1
                       /\ cpRows'[t].base_ref = cpRows[t].base_ref]_vars

\* C24 for a task whose base reconstruct_state can load
C24_LoadableBaseCompacts ==
    [][\A t \in AllTaskIds :
          (/\ Stored(t) /\ ~cpRet'[1].is_base
           /\ Len(cpRows[t].deltas) + 1 = CompactionThreshold
           /\ ReconstructState(cpRows, cpFiles, t) # None) =>
              /\ cpRows'[t].deltas = <<>>
              /\ cpRows'[t].checkpoint_count = cpRet'[1].checkpoint_id + 1]_vars

\* the delta list of a task holds as many deltas as the compaction threshold: its
\* base compresses to less than DB_SIZE_LIMIT and no compaction took place
C24_Witness ==
    /\ Len(cpRows["j1_task_0"].deltas) = CompactionThreshold
    /\ cpRows["j1_task_0"].base_ref # Null
    /\ GzipLen(cpHist["j1_task_0"][1].data) < DB_SIZE_LIMIT
    /\ cpRet[1].ok

\* a step whose store_checkpoint call for a delta of task t ran a compaction:
\* _compact_checkpoints was reached and reconstruct_state gave it a state
Compacted(t) ==
    /\ nCkpts' = nCkpts + 1
    /\ cpRet'[1].task = t
    /\ ~cpRet'[1].is_base
    /\ t \in DOMAIN tasks
    /\ Compacts(cpRows, t)
    /\ ReconstructState(AtCompactionTest(t).rows, AtCompactionTest(t).files, t) # None

\* C25: reconstruct_state immediately after a compaction returns what it would have
\* returned immediately before it
C25_CompactionKeepsState ==
    [][\A t \in AllTaskIds :
          Compacted(t) =>
              ReconstructState(cpRows', cpFiles', t) =
                  ReconstructState(AtCompactionTest(t).rows, AtCompactionTest(t).files, t)]_vars

\* C25 for the compactions whose merged state is a state dict
C25_DictCompactionKeepsState ==
    [][\A t \in AllTaskIds :
          (/\ Compacted(t)
           /\ IsDict(ReconstructState(AtCompactionTest(t).rows,
                                      AtCompactionTest(t).files, t)[1])) =>
              ReconstructState(cpRows', cpFiles', t) =
                  ReconstructState(AtCompactionTest(t).rows, AtCompactionTest(t).files, t)]_vars

\* a compaction has taken place and left a base_ref, an empty delta list and nothing
\* that reconstruct_state could load
C25_Witness ==
    /\ nCkpts > CompactionThreshold
    /\ cpRows["j1_task_0"].deltas = <<>>
    /\ cpRows["j1_task_0"].base_ref = "stored_" \o ToString(cpRows["j1_task_0"].checkpoint_count)
    /\ cpRows["j1_task_0"].checkpoint_count > nCkpts
    /\ ReconstructState(cpRows, cpFiles, "j1_task_0") = None

\* C26: checkpoint_count never decreases over store_checkpoint calls, whatever
\* checkpoint_id they carry, and a stored base or delta adds one to it
C26_CountMonotonic ==
    [][\A t \in AllTaskIds :
          /\ cpRows'[t].checkpoint_count >= cpRows[t].checkpoint_count
          /\ Stored(t) =>
                 cpRows'[t].checkpoint_count = cpRows[t].checkpoint_count + 1]_vars

\* C26 for a worker that numbers its checkpoints as _checkpoint_loop does, one more
\* with every checkpoint sent: checkpoint_count never decreases
C26_LoopCountNeverDecreases ==
    [][\A t \in AllTaskIds :
          cpRows'[t].checkpoint_count >= cpRows[t].checkpoint_count]_vars

\* a delta under checkpoint_id 2 and then a delta under checkpoint_id 1 were stored
\* for a task, and its checkpoint_count is 1
C26_Witness ==
    \E t \in DOMAIN tasks :
        /\ Len(cpHist[t]) >= 2
        /\ cpHist[t][Len(cpHist[t]) - 1].checkpoint_id = 2
        /\ Last(cpHist[t]).checkpoint_id = 1
        /\ ~Last(cpHist[t]).is_base
        /\ cpRet[1] = Last(cpHist[t])
        /\ cpRows[t].checkpoint_count = 1

\* C27: a task whose delta list is not empty has a base
C27_DeltasHaveBase ==
    \A t \in AllTaskIds : cpRows[t].deltas # <<>> => cpRows[t].base_ref # Null

\* the store of the base of a task failed, the worker went on to its first delta,
\* under checkpoint_id 2; it was stored and acknowledged, and the task has a delta
\* descriptor and no base
C27_Witness ==
    \E t \in DOMAIN tasks :
        /\ nCkpts = 2
        /\ Len(cpHist[t]) = 1
        /\ ~cpHist[t][1].is_base
        /\ cpRet[1] = cpHist[t][1]
        /\ cpRet[1].checkpoint_id = 2
        /\ cpAcks = <<<<t, 2>>>>
        /\ Len(cpRows[t].deltas) = 1
        /\ cpRows[t].base_ref = Null

\* a step in which store_checkpoint was called and returned false
StoreFailed ==
    /\ nCkpts' = nCkpts + 1
    /\ ~cpRet'[1].ok

\* the blob of the checkpoint acknowledged in this step is in the task's storage
DurablyStored ==
    RetrieveCheckpoint(cpFiles', cpRet'[1].task, cpRet'[1].is_base,
                       cpRet'[1].checkpoint_id) = Some(cpRet'[1].data)

\* C28: a store_checkpoint call that fails leaves the checkpoint columns of every
\* task as they were and sends no CHECKPOINT_ACK; a CHECKPOINT_ACK is sent only for
\* a checkpoint that is durably stored
C28_AckOnlyWhenStored ==
    [][/\ StoreFailed => (cpRows' = cpRows /\ cpAcks' = cpAcks)
       /\ cpAcks' # cpAcks =>
              /\ cpRet'[1].ok
              /\ cpAcks' = Append(cpAcks, <<cpRet'[1].task, cpRet'[1].checkpoint_id>>)
              /\ DurablyStored]_vars

\* C28 without the durability of what is acknowledged: a failed call changes no
\* column and sends nothing, and an ack is sent only for a call that returned true
C28_FailureLeavesColumns ==
    [][/\ StoreFailed => (cpRows' = cpRows /\ cpAcks' = cpAcks)
       /\ cpAcks' # cpAcks =>
              /\ cpRet'[1].ok
              /\ cpAcks' = Append(cpAcks, <<cpRet'[1].task, cpRet'[1].checkpoint_id>>)]_vars

\* after a call that stored nothing for the task, a delta that compresses
\* to less than DB_SIZE_LIMIT was stored and acknowledged, and no file of the task
\* holds it
C28_Witness ==
    \E t \in DOMAIN tasks :
        /\ nCkpts = 2
        /\ Len(cpHist[t]) = 1
        /\ cpRet[1] = cpHist[t][1]
        /\ ~cpRet[1].is_base
        /\ GzipLen(cpRet[1].data) < DB_SIZE_LIMIT
        /\ cpAcks = <<<<t, cpRet[1].checkpoint_id>>>>
        /\ RetrieveCheckpoint(cpFiles, t, FALSE, cpRet[1].checkpoint_id) = None
        /\ cpRows[t].last_at # NoTime

\* ---------------------------------------------------------------- checkpoints of a running task
\* The worker checkpoints the task it is running, the one of the ASSIGN_TASK it has
\* not answered yet, numbering its checkpoints as _checkpoint_loop does; then it
\* answers with TASK_RESULT or TASK_ERROR.  The clock advances in ticks.
RunBlobs == {[k \in {"a"} |-> v] : v \in {"s", "H1"}}

RunCheckpoint(w) ==
    /\ nCkpts < MaxCkpts
    /\ toWorker[w] # <<>>
    /\ Head(toWorker[w]).type = "assign_task"
    /\ \E is_base \in BOOLEAN, data \in RunBlobs, fail \in {"none", "commit"} :
          HandleTaskCheckpoint(w, Head(toWorker[w]).task, is_base, data, nCkpts + 1, fail)

ClockTick ==
    /\ now < MaxTime
    /\ now' = now + 1
    /\ UNCHANGED <<main, cpRows, cpFiles, cpAcks, cpRet, cpHist, nCkpts, sched>>

\* POST /tasks/{task_id}/force-checkpoint, the request of an operator: the one
\* caller of cleanup_checkpoint, for a task that is completed or failed
ForceCheckpointCleanup(task_id) ==
    /\ task_id \in DOMAIN tasks
    /\ tasks[task_id].status \in {"completed", "failed"}
    /\ cpRows[task_id] # CleanupCheckpoint(cpRows, cpFiles, task_id).rows[task_id]
    /\ cpRows' = CleanupCheckpoint(cpRows, cpFiles, task_id).rows
    /\ cpFiles' = CleanupCheckpoint(cpRows, cpFiles, task_id).files
    /\ cpHist' = [cpHist EXCEPT ![task_id] = <<>>]
    /\ UNCHANGED <<main, cpAcks, cpRet, nCkpts, now, sched>>

RunNext ==
    \/ \E w \in LiveWorkers : RunCheckpoint(w)
    \/ \E t \in AllTaskIds : ForceCheckpointCleanup(t)
    \/ \E w \in LiveWorkers : WorkerResult(w)
    \/ \E w \in LiveWorkers : WorkerError(w)
    \/ \E c \in LiveConns : ResultHandler(c)
    \/ \E c \in LiveConns : ErrorHandler(c)
    \/ \E c \in LiveConns : Assignment(c)
    \/ ClockTick

RunSpec ==
    /\ CkptInit
    /\ [][RunNext]_vars
    /\ \A c \in LiveConns : WF_vars(ResultHandler(c) \/ ErrorHandler(c) \/ Assignment(c))
    /\ \A w \in LiveWorkers : WF_vars(WorkerResult(w))

\* TaskModel.status
TaskStatuses == {"pending", "assigned", "completed", "failed"}

\* seconds since the last checkpoint of task t
CheckpointAge(t) == (now - cpRows[t].last_at) * Tick

\* C29: should_resume_from_checkpoint(task) is true exactly when the task has a
\* base checkpoint, its status is neither completed nor failed and its last
\* checkpoint is at most one hour old
C29_ResumableIffFreshBase ==
    \A t \in AllTaskIds :
        /\ ShouldResumeFromCheckpoint(cpRows, t) <=>
               /\ t \in DOMAIN tasks
               /\ cpRows[t].base_ref # Null
               /\ tasks[t].status \notin {"completed", "failed"}
               /\ CheckpointAge(t) <= StaleSeconds
        /\ \A status \in TaskStatuses :
               ResumeTests(status, cpRows[t]) <=>
                   /\ cpRows[t].base_ref # Null
                   /\ status \notin {"completed", "failed"}
                   /\ CheckpointAge(t) <= StaleSeconds

\* a task that is still assigned has a base checkpoint that is two hours old or
\* older, and
\* should_resume_from_checkpoint is false for it
C29_Witness ==
    \E t \in DOMAIN tasks :
        /\ cpRows[t].base_ref # Null
        /\ tasks[t].status = "assigned"
        /\ cpRows[t].last_at # NoTime
        /\ CheckpointAge(t) >= 2 * StaleSeconds
        /\ ~ShouldResumeFromCheckpoint(cpRows, t)

\* checkpoint data of task t is left: a base_ref, a delta descriptor or a file
CheckpointLeft(t) ==
    \/ cpRows[t].base_ref # Null
    \/ cpRows[t].deltas # <<>>
    \/ \E f \in DOMAIN cpFiles : f[1] = t

\* C30: once a task is completed, its TASK_RESULT accepted, its checkpoint columns
\* are cleared and its checkpoint files deleted
C30_CompletionCleansCheckpoint ==
    \A t \in AllTaskIds :
        (t \in DOMAIN tasks /\ tasks[t].status = "completed" /\ CheckpointLeft(t))
            ~> ~CheckpointLeft(t)

\* the task is completed, the handler of its TASK_RESULT has returned, the client has
\* its results, and the task still has its base_ref and its base file
C30_Witness ==
    \E t \in DOMAIN tasks :
        /\ tasks[t].status = "completed"
        /\ \A c \in Conns : hs[c].pc = "idle" /\ inbox[c] = <<>>
        /\ jobs[tasks[t].job_id].status = "completed"
        /\ cpRows[t].base_ref # Null
        /\ <<t, "base">> \in DOMAIN cpFiles

\* ---------------------------------------------------------------- failing assignments
\* the except branch of _assign_task_to_worker: mark_worker_available, then the
\* worker row update is awaited
EnterExcept(c, job_id, task_id, worker_id, cont, rest) ==
    /\ available' = MarkWorkerAvailable(available, worker_id)
    /\ hs' = [hs EXCEPT ![c] = [@ EXCEPT !.pc = "as_undo", !.job = job_id,
                                         !.task = task_id, !.worker = worker_id,
                                         !.cont = cont, !.pend = rest, !.avail = {}]]

\* websocket.send of _assign_task_to_worker raises, in the loop of
\* assign_tasks_for_job or in assign_task_to_available_worker
SendFails(c) ==
    /\ \/ /\ hs[c].pc = "sj_workers"
          /\ \E w \in SelectWorker(hs[c].avail) :
                /\ w \in DOMAIN cmWorkers
                /\ EnterExcept(c, hs[c].job, Head(hs[c].pend), w, "loop", Tail(hs[c].pend))
       \/ /\ hs[c].pc = "ata_pending"
          /\ GetPendingTasks(Null) # <<>>
          /\ LET t == SelectTask(GetPendingTasks(Null), hs[c].wid)
             IN  /\ tasks[t].job_id \in jobCache
                 /\ hs[c].wid \in DOMAIN cmWorkers
                 /\ EnterExcept(c, tasks[t].job_id, t, hs[c].wid, "ata", <<>>)
    /\ UNCHANGED <<cmWorkers, jobWebsockets, jobCache, db, inbox, toWorker, toClient,
                   peers, assignsOut, doneOrder>>

\* pc = "as_task": _update_task_status(task_id, "assigned", worker_id) raises
AsTaskFails(c) ==
    /\ hs[c].pc = "as_task"
    /\ EnterExcept(c, hs[c].job, hs[c].task, hs[c].worker, hs[c].cont, hs[c].pend)
    /\ UNCHANGED <<cmWorkers, jobWebsockets, jobCache, db, inbox, toWorker, toClient,
                   peers, assignsOut, doneOrder>>

\* pc = "as_worker": _update_worker_status(worker_id, "busy", task_id) raises
AsWorkerFails(c) ==
    /\ hs[c].pc = "as_worker"
    /\ EnterExcept(c, hs[c].job, hs[c].task, hs[c].worker, hs[c].cont, hs[c].pend)
    /\ UNCHANGED <<cmWorkers, jobWebsockets, jobCache, db, inbox, toWorker, toClient,
                   peers, assignsOut, doneOrder>>

\* pc = "as_undo": _update_worker_status(worker_id, "online") is applied, or raises
\* and is swallowed; _assign_task_to_worker returns False to its caller
AsUndo(c) ==
    /\ hs[c].pc = "as_undo"
    /\ \/ workerRows' = UpdateWorkerStatus(workerRows, hs[c].worker, "online", Null)
       \/ workerRows' = workerRows
    /\ IF hs[c].cont = "loop" THEN LoopTop(c, hs[c].pend)
                              ELSE Finish(c) /\ UNCHANGED toClient
    /\ UNCHANGED <<registry, jobCache, jobs, tasks, taskOrder, failures, inbox, toWorker,
                   peers, assignsOut, doneOrder>>

FailingAssignment(c) == SendFails(c) \/ AsTaskFails(c) \/ AsWorkerFails(c) \/ AsUndo(c)

FailNext ==
    \/ \E c \in Clients : ClientSubmit(c)
    \/ \E w \in LiveWorkers : WorkerConnect(w)
    \/ \E w \in LiveWorkers : WorkerResult(w)
    \/ \E c \in LiveConns : LiveHandlerStep(c)
    \/ \E c \in LiveConns : FailingAssignment(c)

FailSpec == Init /\ [][FailNext]_vars

\* the step in which a failed _assign_task_to_worker of handler c returns
AssignmentFailed(c) == hs[c].pc = "as_undo" /\ hs'[c].pc # "as_undo"

\* C31: when a failed assignment attempt returns, the worker is in available_workers
\* if it is registered, and the task is pending with no worker recorded
C31_FailedAssignmentRolledBack ==
    [][\A c \in Conns :
          AssignmentFailed(c) =>
              /\ hs[c].worker \in DOMAIN cmWorkers' => hs[c].worker \in available'
              /\ tasks'[hs[c].task].status = "pending"
              /\ tasks'[hs[c].task].worker_id = Null]_vars

\* C31 for the worker alone: the step that enters the except branch puts it back in
\* available_workers if it is registered
C31_WorkerAvailableAgain ==
    [][\A c \in Conns :
          (hs[c].pc # "as_undo" /\ hs'[c].pc = "as_undo") =>
              (hs'[c].worker \in DOMAIN cmWorkers' => hs'[c].worker \in available')]_vars

\* a failed assignment has returned, every handler is idle, and the task is still
\* assigned to the worker, which is available and has not been sent anything it
\* has not answered
C31_Witness ==
    \E t \in DOMAIN tasks :
        /\ \A c \in Conns : hs[c].pc = "idle" /\ inbox[c] = <<>>
        /\ tasks[t].status = "assigned"
        /\ tasks[t].worker_id \in available
        /\ doneOrder = <<>>
        /\ nAnswers = 0
        /\ workerRows[tasks[t].worker_id].status = "online"

\* ---------------------------------------------------------------- a job id submitted twice
\* two client connections; each submits once, both under the same job id
Submitters == {"c1", "c2"}

SubmitterConns == LiveWorkers \cup Submitters

SubmitInit ==
    /\ cmWorkers = EmptyMap
    /\ jobWebsockets = EmptyMap
    /\ available = {}
    /\ jobCache = {}
    /\ jobs = EmptyMap
    /\ tasks = EmptyMap
    /\ taskOrder = <<>>
    /\ workerRows = EmptyMap
    /\ failures = EmptyMap
    /\ inbox = [c \in Conns \cup Submitters |-> <<>>]
    /\ toWorker = [c \in Workers |-> <<>>]
    /\ toClient = [c \in Submitters |-> <<>>]
    /\ hs = [c \in Conns \cup Submitters |-> IdleH]
    /\ started = {}
    /\ nAnswers = 0
    /\ nErrors = 0
    /\ nDups = 0
    /\ lastResult = [w \in Workers |-> <<>>]
    /\ assignsOut = [t \in AllTaskIds |-> 0]
    /\ doneOrder = <<>>
    /\ closed = {}
    /\ clientType = [c \in Conns \cup Submitters |-> Null]
    /\ nStray = 0
    /\ cpRows = [t \in AllTaskIds |-> CpDefaults]
    /\ cpFiles = NoFiles
    /\ cpAcks = <<>>
    /\ cpRet = <<>>
    /\ cpHist = [t \in AllTaskIds |-> <<>>]
    /\ nCkpts = 0
    /\ now = 0
    /\ NoCalls

\* Client.submit_job on either connection: SUBMIT_JOB with total_tasks = len(args_list);
\* the second submission is sent when the job of the first has its row
SubmitterSubmit(c) ==
    /\ c \in Submitters \ started
    /\ Submitters \cap started # {} => Jobs \subseteq DOMAIN jobs
    /\ \E j \in Jobs, n \in 1..MaxTasks :
          inbox' = [inbox EXCEPT ![c] = Append(@, Envelope("submit_job", j, Null, n))]
    /\ started' = started \cup {c}
    /\ UNCHANGED <<registry, jobCache, db, toWorker, toClient, hs, nAnswers, nErrors,
                   nDups, lastResult, assignsOut, doneOrder, closed, clientType, nStray, ckpt, sched>>

SubmitNext ==
    \/ \E c \in Submitters : SubmitterSubmit(c)
    \/ \E w \in LiveWorkers : WorkerConnect(w)
    \/ \E w \in LiveWorkers : WorkerResult(w)
    \/ \E c \in SubmitterConns : LiveHandlerStep(c)

SubmitSpec == SubmitInit /\ [][SubmitNext]_vars

\* connection c takes a SUBMIT_JOB whose job_id has a row in table jobs
TakesDuplicate(c) ==
    /\ hs[c].pc = "idle"
    /\ hs'[c].pc = "sj_job"
    /\ hs'[c].job \in DOMAIN jobs

\* C32: a SUBMIT_JOB whose job_id already exists leaves the existing job untouched:
\* its rows, its cache entry and the connection the registry holds for that job_id
\* are the same after the submission was taken as before it
C32_DuplicateLeavesJobUntouched ==
    [][\A c \in Submitters : TakesDuplicate(c) =>
          /\ jobs' = jobs /\ tasks' = tasks /\ jobCache' = jobCache
          /\ hs'[c].job \in DOMAIN jobWebsockets =>
                jobWebsockets'[hs'[c].job] = jobWebsockets[hs'[c].job]]_vars

\* C32, the part that holds: the submission fails with JOB_ERROR to its sender and
\* writes no job or task rows
C32_DuplicateRejected ==
    [][\A c \in Submitters :
          (hs[c].pc = "sj_job" /\ hs'[c].pc # "sj_job" /\ hs[c].job \in DOMAIN jobs) =>
          /\ jobs' = jobs /\ tasks' = tasks /\ taskOrder' = taskOrder
          /\ toClient'[c] = Append(toClient[c], ClientMsg("job_error", hs[c].job, <<>>))
          /\ hs'[c].pc = "idle"]_vars

\* the second submitter was answered JOB_ERROR and then received the job's results;
\* the client whose submission was accepted received none
C32_Witness ==
    \E a \in Submitters : \E b \in Submitters \ {a} :
       /\ \E k \in 1..Len(toClient[a]) : toClient[a][k].type = "job_accepted"
       /\ \A k \in 1..Len(toClient[a]) : toClient[a][k].type # "job_results"
       /\ \E k \in 1..Len(toClient[b]) : \E m \in (k + 1)..Len(toClient[b]) :
             /\ toClient[b][k].type = "job_error"
             /\ toClient[b][m].type = "job_results"
       /\ \A c \in SubmitterConns : hs[c].pc = "idle" /\ inbox[c] = <<>>

\* ---------------------------------------------------------------- several ids on one connection
\* The runs of C33: a client connection submits several jobs, a worker connection
\* sends WORKER_READY under several worker ids, and either may close at any time
\* between two envelopes.
ManyJobs == {"j1", "j2"}

\* SUBMIT_JOB for a job id not used before; the jobs beyond Jobs have an empty
\* args_list
ManySubmit(c) ==
    /\ c \in Clients \ closed
    /\ hs[c].pc = "idle" /\ inbox[c] = <<>>
    /\ \E j \in ManyJobs \ DOMAIN jobs :
       \E n \in IF j \in Jobs THEN 0..MaxTasks ELSE {0} :
          inbox' = [inbox EXCEPT ![c] = Append(@, Envelope("submit_job", j, Null, n))]
    /\ started' = started \cup {c}
    /\ UNCHANGED <<registry, jobCache, db, toWorker, toClient, hs, nAnswers, nErrors,
                   nDups, lastResult, assignsOut, doneOrder, closed, clientType, nStray, ckpt, sched>>

\* WORKER_READY with a worker_id not registered before
ManyReady(c) ==
    /\ c \in LiveWorkers \ closed
    /\ hs[c].pc = "idle" /\ inbox[c] = <<>>
    /\ \E w \in Workers \ DOMAIN workerRows :
          inbox' = [inbox EXCEPT ![c] = Append(@, Envelope("worker_ready", Null, Null, w))]
    /\ started' = started \cup {c}
    /\ UNCHANGED <<registry, jobCache, db, toWorker, toClient, hs, nAnswers, nErrors,
                   nDups, lastResult, assignsOut, doneOrder, closed, clientType, nStray, ckpt, sched>>

ManyNext ==
    \/ \E c \in Clients : ManySubmit(c)
    \/ \E c \in LiveWorkers : ManyReady(c)
    \/ \E w \in LiveWorkers : WorkerResult(w)
    \/ \E c \in LiveConns : LiveHandlerStep(c)
    \/ \E c \in Clients : ClientDisconnect(c)
    \/ \E w \in LiveWorkers : WorkerDisconnect(w)
    \/ \E w \in LiveWorkers : ClOffline(w)

ManySpec == Init /\ [][ManyNext]_vars

\* the registry entries that refer to connection c
WorkerIdsOf(c) == {w \in DOMAIN cmWorkers : cmWorkers[w] = c}

JobIdsOf(c) == {j \in DOMAIN jobWebsockets : jobWebsockets[j] = c}

\* C33: after the cleanup of a closed connection no worker id and no job id of the
\* registry maps to that connection, and no worker of it is in available_workers
C33_NoEntryForClosedConnection ==
    \A c \in closed :
        /\ WorkerIdsOf(c) = {}
        /\ JobIdsOf(c) = {}
        /\ \A w \in available : w \in DOMAIN cmWorkers /\ cmWorkers[w] # c

\* C33, the part that holds: a connection that registered one job id or one worker
\* id leaves no entry
C33_SingleIdCleaned ==
    \A c \in closed :
        /\ Cardinality(DOMAIN workerRows) <= 1 => WorkerIdsOf(c) = {}
        /\ Cardinality(DOMAIN jobs) <= 1 => JobIdsOf(c) = {}

\* the worker connection registered two worker ids and was closed and cleaned up:
\* one worker id still maps to it, a task is assigned to that worker id and its
\* ASSIGN_TASK was written to the connection
C33_Witness ==
    \E c \in closed : \E w \in WorkerIdsOf(c) :
        /\ hs[c].pc = "idle"
        /\ Cardinality(DOMAIN workerRows) = 2
        /\ \E t \in DOMAIN tasks : tasks[t].status = "assigned" /\ tasks[t].worker_id = w
        /\ toWorker[c] # <<>>

\* ---------------------------------------------------------------- a pending task of an uncached job
\* The runs of C34: the foreman starts on a database file that holds a job of an
\* earlier run with one task still pending (init_db creates the missing tables and
\* keeps the rows; the caches of JobManager start empty).
OldJob == "j0"

OldTask == TaskId(OldJob, 0)

RestartInit ==
    /\ cmWorkers = EmptyMap
    /\ jobWebsockets = EmptyMap
    /\ available = {}
    /\ jobCache = {}
    /\ jobs = Put(EmptyMap, OldJob, [CreateJobRow(1) EXCEPT !.status = "running"])
    /\ tasks = CreateTasksForJob(EmptyMap, OldJob, 1)
    /\ taskOrder = NewTaskOrder(<<>>, OldJob, 1)
    /\ workerRows = EmptyMap
    /\ failures = EmptyMap
    /\ inbox = [c \in Conns |-> <<>>]
    /\ toWorker = [c \in Workers |-> <<>>]
    /\ toClient = [c \in Clients |-> <<>>]
    /\ hs = [c \in Conns |-> IdleH]
    /\ started = {}
    /\ nAnswers = 0
    /\ nErrors = 0
    /\ nDups = 0
    /\ lastResult = [w \in Workers |-> <<>>]
    /\ assignsOut = [t \in AllTaskIds \cup {OldTask} |-> 0]
    /\ doneOrder = <<>>
    /\ closed = {}
    /\ clientType = [c \in Conns |-> Null]
    /\ nStray = 0
    /\ cpRows = [t \in AllTaskIds \cup {OldTask} |-> CpDefaults]
    /\ cpFiles = NoFiles
    /\ cpAcks = <<>>
    /\ cpRet = <<>>
    /\ cpHist = [t \in AllTaskIds \cup {OldTask} |-> <<>>]
    /\ nCkpts = 0
    /\ now = 0
    /\ NoCalls

RestartSpec == RestartInit /\ [][LiveNext]_vars

\* the pending tasks whose job has its func_code cached
Assignable == {t \in DOMAIN tasks : tasks[t].status = "pending" /\ tasks[t].job_id \in jobCache}

\* assign_task_to_available_worker returns on connection c, for a registered worker
AssignOneReturns(c) ==
    /\ hs[c].pc = "ata_pending"
    /\ hs'[c].pc # "ata_pending"
    /\ hs[c].wid \in DOMAIN cmWorkers

\* C34: when a worker becomes free and some pending task belongs to a job whose
\* function source is cached, assign_task_to_available_worker assigns such a task to
\* the worker, whatever other pending tasks there are
C34_FreeWorkerGetsCachedTask ==
    [][\A c \in Workers : (AssignOneReturns(c) /\ Assignable # {}) =>
          /\ hs'[c].pc = "as_task"
          /\ hs'[c].task \in Assignable
          /\ hs'[c].worker = hs[c].wid]_vars

\* C34, the part that holds (in the runs of LiveSpec and ErrSpec): when the first
\* pending task is one of a cached job, it is assigned to the worker
C34_FirstPendingAssigned ==
    [][\A c \in Workers :
          (/\ AssignOneReturns(c)
           /\ GetPendingTasks(Null) # <<>>
           /\ GetPendingTasks(Null)[1] \in Assignable) =>
              /\ hs'[c].pc = "as_task"
              /\ hs'[c].task = GetPendingTasks(Null)[1]
              /\ hs'[c].worker = hs[c].wid]_vars

\* the worker has completed a task and is available again, every handler has
\* returned and no envelope is in flight, and a task of the cached job is still
\* pending behind the task of the uncached job
C34_Witness ==
    /\ \A c \in Conns : hs[c].pc = "idle" /\ inbox[c] = <<>>
    /\ \A w \in Workers : toWorker[w] = <<>>
    /\ available # {}
    /\ doneOrder # <<>>
    /\ Assignable # {}
    /\ tasks[OldTask].status = "pending" /\ OldJob \notin jobCache

\* ---------------------------------------------------------------- order of the client's envelopes
\* C35: for every job, the JOB_RESULTS envelope a client receives comes after the
\* JOB_ACCEPTED envelope of that job, under every interleaving of the submission
\* handler with the result handlers
C35_AcceptedBeforeResults ==
    \A c \in Clients : \A k \in 1..Len(toClient[c]) :
        toClient[c][k].type = "job_results" =>
            \E m \in 1..(k - 1) :
                /\ toClient[c][m].type = "job_accepted"
                /\ toClient[c][m].job = toClient[c][k].job

\* the client received JOB_RESULTS with the job's result first and JOB_ACCEPTED for
\* the same job after it, and the submission handler has returned
C35_Witness ==
    \E c \in Clients :
        /\ hs[c].pc = "idle"
        /\ Len(toClient[c]) = 2
        /\ toClient[c][1].type = "job_results" /\ toClient[c][1].results # <<>>
        /\ toClient[c][2].type = "job_accepted"
        /\ toClient[c][2].job = toClient[c][1].job

\* ---------------------------------------------------------------- PONG
\* _handle_pong returns on connection c
PongHandled(c) == hs[c].pc = "pong_online" /\ hs'[c].pc # "pong_online"

\* C36: handling a PONG leaves the worker's row (status, current_task_id, counters)
\* and available_workers as they were
C36_PongKeepsWorkerRow ==
    [][\A c \in Workers : PongHandled(c) =>
          /\ workerRows' = workerRows
          /\ available' = available]_vars

\* C36, the part that holds: current_task_id, the counters and available_workers
\* are the same after the PONG, and so are the rows of the other workers
C36_PongKeepsTaskAndCounters ==
    [][\A c \in Workers : PongHandled(c) =>
          /\ available' = available
          /\ DOMAIN workerRows' = DOMAIN workerRows
          /\ \A w \in DOMAIN workerRows :
                /\ workerRows'[w].current_task_id = workerRows[w].current_task_id
                /\ workerRows'[w].total_tasks_completed = workerRows[w].total_tasks_completed
                /\ workerRows'[w].total_tasks_failed = workerRows[w].total_tasks_failed
                /\ w # hs[c].wid => workerRows'[w] = workerRows[w]]_vars

\* the PONG of a worker whose row is busy with its assigned task is being handled:
\* _handle_pong has found the worker id and is about to write the row
C36_Witness ==
    \E c \in Workers : \E t \in DOMAIN tasks :
        /\ hs[c].pc = "pong_online"
        /\ hs[c].wid \in DOMAIN workerRows
        /\ workerRows[hs[c].wid].status = "busy"
        /\ workerRows[hs[c].wid].current_task_id = t
        /\ tasks[t].status = "assigned" /\ tasks[t].worker_id = hs[c].wid
        /\ hs[c].wid \notin available

\* ---------------------------------------------------------------- scheduling strategies
\* create_scheduler: the five strategies
Strategies == {"fifo", "round_robin", "performance", "least_loaded", "priority"}

\* the worker ids handed to a strategy, in ascending order
SchedWorkerSeq == <<"w1", "w2", "w3">>

SchedWorkers == Range(SchedWorkerSeq)

MaxCount == 1

MaxPriority == 1

MaxPending == 2

\* Worker of scheduler_interface.py: the counters a strategy reads
WorkerStats == [tasks_completed : 0..MaxCount, tasks_failed : 0..MaxCount]

\* all_workers: worker id -> Worker, for any set of worker ids
AllWorkersArgs == UNION {[S -> WorkerStats] : S \in SUBSET SchedWorkers}

\* Task of scheduler_interface.py
SchedTasks == [id : {"t1", "t2"}, priority : 0..MaxPriority, retry_count : 0..MaxCount]

\* pending_tasks: lists of tasks with distinct ids
PendingArgs ==
    {q \in UNION {[1..n -> SchedTasks] : n \in 0..MaxPending} :
        \A i, k \in 1..Len(q) : i # k => q[i].id # q[k].id}

\* Worker.success_rate as the fraction <<numerator, denominator>>; 1.0 without tasks
SuccessRate(w) ==
    IF w.tasks_completed + w.tasks_failed > 0
    THEN <<w.tasks_completed, w.tasks_completed + w.tasks_failed>>
    ELSE <<1, 1>>

RateLess(a, b) == SuccessRate(a)[1] * SuccessRate(b)[2] < SuccessRate(b)[1] * SuccessRate(a)[2]

\* the tuple order of Python on (success_rate, tasks_completed)
PerformanceKeyLess(a, b) ==
    \/ RateLess(a, b)
    \/ ~RateLess(b, a) /\ a.tasks_completed < b.tasks_completed

\* a strategy reading the statistics of every worker in all_workers
AnyKnownWorkers(available_workers, all_workers) == DOMAIN all_workers

\* workers = [all_workers.get(wid) for wid in available_workers if wid in all_workers]
KnownWorkers(available_workers, all_workers) ==
    available_workers \cap DOMAIN all_workers

\* min(...) and max(...) return the first extremal element of the list, and the list
\* follows the iteration order of a set: any extremal element can be the result
\* LeastLoadedScheduler.select_worker
LeastLoadedSelectWorker(available_workers, all_workers) ==
    LET workers == KnownWorkers(available_workers, all_workers)
        load(w) == all_workers[w].tasks_completed + all_workers[w].tasks_failed
    IN  IF available_workers = {} THEN {Null}
        ELSE IF workers = {} THEN available_workers
        ELSE {w \in workers : \A v \in workers : load(w) <= load(v)}

\* PerformanceBasedScheduler.select_worker
PerformanceSelectWorker(available_workers, all_workers) ==
    LET workers == KnownWorkers(available_workers, all_workers)
    IN  IF available_workers = {} THEN {Null}
        ELSE IF workers = {} THEN available_workers
        ELSE {w \in workers :
                \A v \in workers : ~PerformanceKeyLess(all_workers[w], all_workers[v])}

\* PriorityScheduler.select_worker
PrioritySelectWorker(priority, available_workers, all_workers) ==
    LET workers == KnownWorkers(available_workers, all_workers)
    IN  IF available_workers = {} THEN {Null}
        ELSE IF priority > 0 /\ workers # {}
        THEN {w \in workers : \A v \in workers : ~RateLess(all_workers[w], all_workers[v])}
        ELSE available_workers

\* FIFOScheduler.select_worker
FifoSelectWorker(available_workers) ==
    IF available_workers = {} THEN {Null} ELSE SelectWorker(available_workers)

\* sorted(available_workers)
Sorted(S) == SelectSeq(SchedWorkerSeq, LAMBDA w : w \in S)

\* RoundRobinScheduler.select_worker: <<worker_order, last_worker_idx, result>> after
\* the call
RoundRobinSelectWorker(order, idx, available_workers) ==
    IF available_workers = {} THEN <<order, idx, Null>>
    ELSE LET available_list == Sorted(available_workers)
             start == IF available_list # order THEN -1 ELSE idx
             next == (start + 1) % Len(available_list)
         IN  <<available_list, next, available_list[next + 1]>>

\* pending_tasks[0] if pending_tasks else None (FIFO, RoundRobin, LeastLoaded)
FirstPendingTask(pending_tasks) ==
    IF pending_tasks = <<>> THEN None ELSE Some(SelectTask(pending_tasks, Null))

\* the tuple order of Python on (priority, -retry_count)
TaskKeyLess(a, b) ==
    \/ a.priority < b.priority
    \/ a.priority = b.priority /\ a.retry_count > b.retry_count

\* max(pending_tasks, key=...) of Performance and Priority: the first maximal task
MaxPriorityTask(pending_tasks) ==
    IF pending_tasks = <<>> THEN None
    ELSE LET best == {k \in 1..Len(pending_tasks) :
                        \A i \in 1..Len(pending_tasks) :
                            ~TaskKeyLess(pending_tasks[k], pending_tasks[i])}
         IN  Some(pending_tasks[CHOOSE k \in best : \A i \in best : k <= i])

\* select_worker of a strategy, as the set of <<worker_order, last_worker_idx, result>>
\* it can end with
SelectWorkerBy(strategy, priority, available_workers, all_workers) ==
    IF strategy = "round_robin"
    THEN {RoundRobinSelectWorker(worker_order, last_worker_idx, available_workers)}
    ELSE {<<worker_order, last_worker_idx, r>> :
            r \in CASE strategy = "fifo" -> FifoSelectWorker(available_workers)
                    [] strategy = "least_loaded" ->
                            LeastLoadedSelectWorker(available_workers, all_workers)
                    [] strategy = "performance" ->
                            PerformanceSelectWorker(available_workers, all_workers)
                    [] OTHER -> PrioritySelectWorker(priority, available_workers, all_workers)}

SelectTaskBy(strategy, pending_tasks) ==
    IF strategy \in {"performance", "priority"} THEN MaxPriorityTask(pending_tasks)
    ELSE FirstPendingTask(pending_tasks)

\* all_workers as given to a strategy; FIFO and RoundRobin do not read it, and for
\* them the counters are left at zero
AllWorkersFor(strategy) ==
    IF strategy \in {"fifo", "round_robin"}
    THEN UNION {[S -> {[tasks_completed |-> 0, tasks_failed |-> 0]}] : S \in SUBSET SchedWorkers}
    ELSE AllWorkersArgs

MaxCalls == 3

\* the scheduler is called once, the RoundRobin scheduler up to MaxCalls times in a
\* row; lastCall keeps the number of the call and what the call before it returned
CanCall(strategy) ==
    \/ lastCall = <<>>
    \/ /\ strategy = "round_robin"
       /\ lastCall # <<>>
       /\ lastCall[1].fn = "select_worker"
       /\ lastCall[1].strategy = "round_robin"
       /\ lastCall[1].n < MaxCalls

\* scheduler.select_worker(task, available_workers, all_workers) is called
CallSelectWorker(strategy) ==
    /\ CanCall(strategy)
    /\ \E priority \in 0..MaxPriority, available_workers \in SUBSET SchedWorkers,
          all_workers \in AllWorkersFor(strategy) :
          \E out \in SelectWorkerBy(strategy, priority, available_workers, all_workers) :
             /\ worker_order' = out[1]
             /\ last_worker_idx' = out[2]
             /\ lastCall' = <<[fn |-> "select_worker", strategy |-> strategy,
                               priority |-> priority, available |-> available_workers,
                               all |-> all_workers, ret |-> out[3],
                               n |-> IF lastCall = <<>> THEN 1 ELSE lastCall[1].n + 1,
                               prev |-> IF lastCall = <<>> THEN Null ELSE lastCall[1].ret]>>
    /\ UNCHANGED <<main, ckpt>>

\* scheduler.select_task(pending_tasks, worker_id) is called
CallSelectTask(strategy) ==
    /\ lastCall = <<>>
    /\ \E pending_tasks \in PendingArgs :
          lastCall' = <<[fn |-> "select_task", strategy |-> strategy,
                         pending |-> pending_tasks,
                         ret |-> SelectTaskBy(strategy, pending_tasks)]>>
    /\ UNCHANGED <<main, ckpt, last_worker_idx, worker_order>>

SchedNext ==
    \/ \E strategy \in Strategies : CallSelectWorker(strategy)
    \/ \E strategy \in Strategies : CallSelectTask(strategy)

SchedSpec == Init /\ [][SchedNext]_vars

\* the last call was select_worker, or select_task
SelectedWorker == lastCall # <<>> /\ lastCall[1].fn = "select_worker"

SelectedTask == lastCall # <<>> /\ lastCall[1].fn = "select_task"

\* C37: under each of the five strategies select_worker returns no worker exactly
\* when the available set it is given is empty, and otherwise a member of that set,
\* never a worker that is only in all_workers; select_task returns no task exactly
\* when the pending list is empty, and otherwise a task of the list
C37_SelectionWithinArguments ==
    /\ SelectedWorker =>
          /\ lastCall[1].ret = Null <=> lastCall[1].available = {}
          /\ lastCall[1].ret # Null => lastCall[1].ret \in lastCall[1].available
    /\ SelectedTask =>
          /\ lastCall[1].ret = None <=> lastCall[1].pending = <<>>
          /\ lastCall[1].ret # None =>
                \E k \in 1..Len(lastCall[1].pending) :
                    lastCall[1].pending[k] = lastCall[1].ret[1]

\* a strategy that reads the statistics returned an available worker although a
\* worker that is only in all_workers has strictly better statistics than every
\* available one
C37_Witness ==
    /\ SelectedWorker
    /\ lastCall[1].strategy \in {"least_loaded", "performance"}
    /\ lastCall[1].ret \in lastCall[1].available
    /\ lastCall[1].available \subseteq DOMAIN lastCall[1].all
    /\ \E v \in DOMAIN lastCall[1].all \ lastCall[1].available :
          \A w \in lastCall[1].available :
              /\ lastCall[1].all[v].tasks_completed + lastCall[1].all[v].tasks_failed
                    < lastCall[1].all[w].tasks_completed + lastCall[1].all[w].tasks_failed
              /\ PerformanceKeyLess(lastCall[1].all[w], lastCall[1].all[v])

\* ---------------------------------------------------------------- round-robin rotation
\* the position of a worker id in ascending order
Rank(w) == CHOOSE i \in 1..Len(SchedWorkerSeq) : SchedWorkerSeq[i] = w

\* the available worker that follows prev in ascending order, wrapping around
NextInRotation(prev, available_workers) ==
    LET after == {w \in available_workers : Rank(w) > Rank(prev)}
        from == IF after # {} THEN after ELSE available_workers
    IN  CHOOSE w \in from : \A v \in from : Rank(w) <= Rank(v)

RoundRobinCalled ==
    SelectedWorker /\ lastCall[1].strategy = "round_robin" /\ lastCall[1].available # {}

\* C38: RoundRobin select_worker returns the available worker ids in ascending
\* order, wrapping around, each call continuing after the worker the previous call
\* returned, also when the available set differs between the two calls
C38_RotationContinues ==
    RoundRobinCalled =>
        lastCall[1].ret = IF lastCall[1].prev = Null
                          THEN Sorted(lastCall[1].available)[1]
                          ELSE NextInRotation(lastCall[1].prev, lastCall[1].available)

\* C38, the part that holds: while the available set is the same as at the previous
\* call the rotation continues after the worker returned last
C38_RotationWhenUnchanged ==
    [][(/\ SelectedWorker /\ lastCall[1].strategy = "round_robin"
        /\ lastCall[1].ret # Null
        /\ lastCall'[1].n = lastCall[1].n + 1
        /\ lastCall'[1].available = lastCall[1].available) =>
            lastCall'[1].ret = NextInRotation(lastCall[1].ret, lastCall[1].available)]_vars

\* the previous call returned w2 out of {w1, w2, w3}; w2 is then busy and the call
\* on {w1, w3} has returned w1 again, not w3
C38_Witness ==
    /\ RoundRobinCalled
    /\ lastCall[1].n >= 3
    /\ lastCall[1].prev = "w2"
    /\ lastCall[1].available = {"w1", "w3"}
    /\ lastCall[1].ret = "w1"
    /\ Len(worker_order) = 2 /\ last_worker_idx = 0

\* ---------------------------------------------------------------- the worker's delta
\* the dictionary states of a task: any keys of Keys with any values
DictStates == UNION {[S -> Vals] : S \in SUBSET Keys}

\* CheckpointHandler._compute_delta on the unpickled states (the same diff as
\* DeltaComputer._compute_generic_delta): the keys of the current state that are new
\* or changed; a state that is not a dict is sent whole
ComputeDelta(last_state, current_state) ==
    IF IsDict(last_state) /\ IsDict(current_state)
    THEN [key \in {k \in DOMAIN current_state :
                      k \notin DOMAIN last_state \/ last_state[k] # current_state[k]} |->
             current_state[key]]
    ELSE current_state

\* the checkpoint loop takes a delta of the current state against the state of the
\* last checkpoint, and the foreman merges the delta into that state
DeltaThenMerge ==
    /\ lastCall = <<>>
    /\ \E last_state \in DictStates, current_state \in DictStates :
          lastCall' = <<[fn |-> "compute_delta", last |-> last_state,
                         current |-> current_state,
                         delta |-> ComputeDelta(last_state, current_state),
                         merged |-> MergeDelta(last_state,
                                               ComputeDelta(last_state, current_state))]>>
    /\ UNCHANGED <<main, ckpt, last_worker_idx, worker_order>>

DeltaSpec == Init /\ [][DeltaThenMerge]_vars

DeltaMerged == lastCall # <<>> /\ lastCall[1].fn = "compute_delta"

\* C39: for all dictionary states S_prev and S_cur, merging the worker's delta of
\* S_cur against S_prev into S_prev gives S_cur
C39_MergeOfDeltaIsCurrent ==
    DeltaMerged => lastCall[1].merged = lastCall[1].current

\* C39, the part that holds: when no key of S_prev is missing in S_cur (keys added
\* or changed only) the merge gives S_cur
C39_MergeWithoutRemovedKeys ==
    (DeltaMerged /\ DOMAIN lastCall[1].last \subseteq DOMAIN lastCall[1].current) =>
        lastCall[1].merged = lastCall[1].current

\* a key was removed and another added between the two states: the delta holds the
\* added key only and the merged state still has the removed key
C39_Witness ==
    /\ DeltaMerged
    /\ \E k \in DOMAIN lastCall[1].last : k \notin DOMAIN lastCall[1].current
    /\ \E k \in DOMAIN lastCall[1].current : k \notin DOMAIN lastCall[1].last
    /\ DOMAIN lastCall[1].delta = DOMAIN lastCall[1].current
    /\ DOMAIN lastCall[1].merged = DOMAIN lastCall[1].last \cup DOMAIN lastCall[1].current
    /\ lastCall[1].merged # lastCall[1].current

\* ---------------------------------------------------------------- registry operations
\* The runs of C40: the operations of ConnectionManager called directly, in any
\* order, with any worker id, job id and connection.
outsideRegistry == <<jobCache, db, inbox, toWorker, toClient, hs, started, nAnswers,
                     nErrors, nDups, lastResult, assignsOut, doneOrder, closed,
                     clientType, nStray, ckpt, last_worker_idx, worker_order>>

RegistryCall(fn, id) == lastCall' = <<[fn |-> fn, id |-> id]>>

\* ConnectionManager.add_worker
AddWorker(worker_id, websocket) ==
    /\ cmWorkers' = Put(cmWorkers, worker_id, websocket)
    /\ available' = available \cup {worker_id}
    /\ RegistryCall("add_worker", worker_id)
    /\ UNCHANGED <<jobWebsockets, outsideRegistry>>

\* ConnectionManager.remove_worker
RemoveWorkerCall(worker_id) ==
    /\ IF worker_id \in DOMAIN cmWorkers
       THEN /\ cmWorkers' = RemoveWorker(cmWorkers, worker_id)
            /\ available' = available \ {worker_id}
       ELSE UNCHANGED <<cmWorkers, available>>
    /\ RegistryCall("remove_worker", worker_id)
    /\ UNCHANGED <<jobWebsockets, outsideRegistry>>

\* ConnectionManager.mark_worker_available
MarkAvailableCall(worker_id) ==
    /\ available' = MarkWorkerAvailable(available, worker_id)
    /\ RegistryCall("mark_worker_available", worker_id)
    /\ UNCHANGED <<cmWorkers, jobWebsockets, outsideRegistry>>

\* ConnectionManager.mark_worker_busy
MarkBusyCall(worker_id) ==
    /\ available' = MarkWorkerBusy(available, worker_id)
    /\ RegistryCall("mark_worker_busy", worker_id)
    /\ UNCHANGED <<cmWorkers, jobWebsockets, outsideRegistry>>

\* ConnectionManager.add_client
AddClient(job_id, websocket) ==
    /\ jobWebsockets' = Put(jobWebsockets, job_id, websocket)
    /\ RegistryCall("add_client", job_id)
    /\ UNCHANGED <<cmWorkers, available, outsideRegistry>>

\* ConnectionManager.remove_client
RemoveClientCall(job_id) ==
    /\ jobWebsockets' = RemoveClient(jobWebsockets, job_id)
    /\ RegistryCall("remove_client", job_id)
    /\ UNCHANGED <<cmWorkers, available, outsideRegistry>>

\* ConnectionManager.clear_all
ClearAll ==
    /\ cmWorkers' = EmptyMap
    /\ jobWebsockets' = EmptyMap
    /\ available' = {}
    /\ RegistryCall("clear_all", Null)
    /\ UNCHANGED outsideRegistry

RegistryNext ==
    \/ \E w \in SchedWorkers, c \in Conns : AddWorker(w, c)
    \/ \E w \in SchedWorkers : RemoveWorkerCall(w)
    \/ \E w \in SchedWorkers : MarkAvailableCall(w)
    \/ \E w \in SchedWorkers : MarkBusyCall(w)
    \/ \E j \in Jobs, c \in Conns : AddClient(j, c)
    \/ \E j \in Jobs : RemoveClientCall(j)
    \/ ClearAll

RegistrySpec == Init /\ [][RegistryNext]_vars

\* get_stats: busy_workers
BusyWorkers == Cardinality(DOMAIN cmWorkers) - Cardinality(available)

\* C40: available_workers is a subset of the registered worker ids, and so the busy
\* count is never negative, after add_worker, remove_worker, mark_worker_available,
\* mark_worker_busy and clear_all in any order and with any worker ids
C40_AvailableWithinRegistered ==
    /\ available \subseteq DOMAIN cmWorkers
    /\ BusyWorkers >= 0

\* mark_worker_available was just called for a worker id that is not registered and
\* the id is not in available_workers, while a registered worker is busy and another
\* is available
C40_Witness ==
    /\ lastCall # <<>>
    /\ lastCall[1].fn = "mark_worker_available"
    /\ lastCall[1].id \notin DOMAIN cmWorkers
    /\ lastCall[1].id \notin available
    /\ available # {}
    /\ BusyWorkers >= 1

====
